---- MODULE Spec2Model ----
(***************************************************************************)
(* Calendar subsystem of dev-stats: the ICS event-block parser, the        *)
(* datetime decoder, the directory walk, the range filter, the all-day     *)
(* classifier, the keyword categorization engine and the aggregations of   *)
(* CalendarAnalyzer.Analyze.                                                *)
(*                                                                         *)
(* Strings are TLA+ strings (Len, SubSeq and \o apply to them).  A         *)
(* time.Time is the record [day, sec, nsec]: day counts days since         *)
(* 0001-01-01 (proleptic Gregorian, UTC), sec the second of the day, so    *)
(* the zero time.Time is [day |-> 0, sec |-> 0, nsec |-> 0].  A            *)
(* time.Duration is counted in whole seconds.                              *)
(***************************************************************************)
EXTENDS Integers, Sequences, FiniteSets, TLC

VARIABLES
    pc,             \* position of the running operation
    input,          \* the arguments and environment the operation was given
    content,        \* parseICSFile: the lines the scanner has delivered so far
    inEvent,        \* parseICSFile: local inEvent
    currentEvent,   \* parseICSFile: local currentEvent
    events,         \* parseICSFile: local events
    idx,            \* readAllICSFiles: number of paths the walk has visited
    allEvents,      \* readAllICSFiles: allEvents (Analyze: its allEvents)
    writer,         \* the lines written to the io.Writer of Analyze
    filteredEvents, \* Analyze: local filteredEvents
    analyzers,      \* main: the map analyzers
    analyzersToRun, \* main: the slice analyzersToRun
    runs,           \* main: the iterations of its two loops over analyzers
    results,        \* main: the slice results
    ret             \* the value returned by the finished operation

parserVars == <<content, inEvent, currentEvent, events>>

analyzeVars == <<idx, allEvents, writer, filteredEvents>>

mainVars == <<analyzers, analyzersToRun, runs, results>>

vars == <<pc, input, content, inEvent, currentEvent, events,
          idx, allEvents, writer, filteredEvents,
          analyzers, analyzersToRun, runs, results, ret>>

(***************************************************************************)
(* Bounds                                                                  *)
(***************************************************************************)
MaxLines == 5

(***************************************************************************)
(* strings                                                                 *)
(***************************************************************************)
Min(a, b) == IF a < b THEN a ELSE b

CharAt(s, i) == SubSeq(s, i, i)

\* strings.HasPrefix
HasPrefix(s, p) == Len(s) >= Len(p) /\ SubSeq(s, 1, Len(p)) = p

\* strings.HasSuffix
HasSuffix(s, p) == Len(s) >= Len(p) /\ SubSeq(s, Len(s) - Len(p) + 1, Len(s)) = p

\* strings.TrimPrefix
TrimPrefix(s, p) == IF HasPrefix(s, p) THEN SubSeq(s, Len(p) + 1, Len(s)) ELSE s

\* strings.Contains
Contains(s, sub) ==
    \E i \in 0..(Len(s) - Len(sub)) : SubSeq(s, i + 1, i + Len(sub)) = sub

\* strings.LastIndex(s, ":"), 0-based, -1 when absent
LastIndexColon(s) ==
    LET hits == {i \in 1..Len(s) : CharAt(s, i) = ":"}
    IN  IF hits = {} THEN -1 ELSE (CHOOSE i \in hits : \A j \in hits : j <= i) - 1

WhiteSpace == {" ", "\t", "\r"}

\* strings.TrimSpace
TrimSpace(s) ==
    LET keep == {i \in 1..Len(s) : CharAt(s, i) \notin WhiteSpace}
    IN  IF keep = {} THEN ""
        ELSE SubSeq(s, CHOOSE i \in keep : \A j \in keep : i <= j,
                       CHOOSE i \in keep : \A j \in keep : j <= i)

UpperToLower ==
    [c \in {"A", "B", "C", "D", "E", "F", "G", "H", "I", "J", "K", "L", "M",
            "N", "O", "P", "Q", "R", "S", "T", "U", "V", "W", "X", "Y", "Z"} |->
        CASE c = "A" -> "a" [] c = "B" -> "b" [] c = "C" -> "c" [] c = "D" -> "d"
          [] c = "E" -> "e" [] c = "F" -> "f" [] c = "G" -> "g" [] c = "H" -> "h"
          [] c = "I" -> "i" [] c = "J" -> "j" [] c = "K" -> "k" [] c = "L" -> "l"
          [] c = "M" -> "m" [] c = "N" -> "n" [] c = "O" -> "o" [] c = "P" -> "p"
          [] c = "Q" -> "q" [] c = "R" -> "r" [] c = "S" -> "s" [] c = "T" -> "t"
          [] c = "U" -> "u" [] c = "V" -> "v" [] c = "W" -> "w" [] c = "X" -> "x"
          [] c = "Y" -> "y" [] c = "Z" -> "z"]

RECURSIVE ToLowerFrom(_, _)
ToLowerFrom(s, i) ==
    IF i > Len(s) THEN ""
    ELSE LET c == CharAt(s, i)
         IN  (IF c \in DOMAIN UpperToLower THEN UpperToLower[c] ELSE c)
                \o ToLowerFrom(s, i + 1)

\* strings.ToLower
ToLower(s) == ToLowerFrom(s, 1)

DigitVal ==
    [c \in {"0", "1", "2", "3", "4", "5", "6", "7", "8", "9"} |->
        CASE c = "0" -> 0 [] c = "1" -> 1 [] c = "2" -> 2 [] c = "3" -> 3
          [] c = "4" -> 4 [] c = "5" -> 5 [] c = "6" -> 6 [] c = "7" -> 7
          [] c = "8" -> 8 [] c = "9" -> 9]

IsDigitAt(s, i) == i >= 1 /\ i <= Len(s) /\ CharAt(s, i) \in DOMAIN DigitVal

\* the n characters of s from position i are digits
AllDigits(s, i, n) == \A k \in i..(i + n - 1) : IsDigitAt(s, k)

RECURSIVE Atoi(_, _, _)
Atoi(s, i, n) ==
    IF n = 0 THEN 0
    ELSE Atoi(s, i, n - 1) * 10 + DigitVal[CharAt(s, i + n - 1)]

\* the characters of rule names, in ASCII code order: Go compares strings
\* byte-wise
Ascii ==
    " &-0123456789ABCDEFGHIJKLMNOPQRSTUVWXYZ_abcdefghijklmnopqrstuvwxyz"

CharCode(c) == CHOOSE i \in 1..Len(Ascii) : CharAt(Ascii, i) = c

\* a < b on Go strings
RECURSIVE StrLessFrom(_, _, _)
StrLessFrom(a, b, i) ==
    IF i > Len(b) THEN FALSE
    ELSE IF i > Len(a) THEN TRUE
    ELSE IF CharAt(a, i) = CharAt(b, i) THEN StrLessFrom(a, b, i + 1)
    ELSE CharCode(CharAt(a, i)) < CharCode(CharAt(b, i))

StrLess(a, b) == StrLessFrom(a, b, 1)

\* insert x into a sorted sequence, after the elements not greater than it
RECURSIVE InsertString(_, _)
InsertString(sorted, x) ==
    IF sorted = <<>> THEN <<x>>
    ELSE IF StrLess(x, Head(sorted)) THEN <<x>> \o sorted
    ELSE <<Head(sorted)>> \o InsertString(Tail(sorted), x)

RECURSIVE SortStringsFrom(_, _)
SortStringsFrom(seq, i) ==
    IF i > Len(seq) THEN <<>>
    ELSE InsertString(SortStringsFrom(seq, i + 1), seq[i])

\* the keys left in map iteration order
SortStringsSkipped(seq) == seq

\* sort.Strings
SortStrings(seq) == SortStringsFrom(seq, 1)

\* the orders in which ranging over a map with key set S can deliver its keys
KeyOrders(S) ==
    {f \in [1..Cardinality(S) -> S] : \A i, j \in 1..Cardinality(S) : f[i] = f[j] => i = j}

(***************************************************************************)
(* time.Time                                                               *)
(***************************************************************************)
SecondsPerDay == 86400

ZeroTime == [day |-> 0, sec |-> 0, nsec |-> 0]

\* Time.IsZero
IsZero(t) == t = ZeroTime

\* Time.Before
Before(a, b) ==
    \/ a.day < b.day
    \/ a.day = b.day /\ a.sec < b.sec
    \/ a.day = b.day /\ a.sec = b.sec /\ a.nsec < b.nsec

IsLeap(y) == y % 4 = 0 /\ (y % 100 # 0 \/ y % 400 = 0)

DaysIn(m, y) ==
    IF m = 2 THEN (IF IsLeap(y) THEN 29 ELSE 28)
    ELSE IF m \in {4, 6, 9, 11} THEN 30 ELSE 31

RECURSIVE DaysBeforeMonth(_, _)
DaysBeforeMonth(m, y) ==
    IF m <= 1 THEN 0 ELSE DaysBeforeMonth(m - 1, y) + DaysIn(m - 1, y)

\* days from 0001-01-01 to the first day of year y
DaysBeforeYear(y) ==
    365 * (y - 1) + ((y - 1) \div 4) - ((y - 1) \div 100) + ((y - 1) \div 400)

\* time.Date(y, m, d, hh, mm, ss, 0, time.UTC)
Date(y, m, d, hh, mm, ss) ==
    [day  |-> DaysBeforeYear(y) + DaysBeforeMonth(m, y) + (d - 1),
     sec  |-> hh * 3600 + mm * 60 + ss,
     nsec |-> 0]

\* Time.AddDate(0, 0, days)
AddDays(t, days) == [t EXCEPT !.day = @ + days]

\* Time.Hour
Hour(t) == t.sec \div 3600

\* Time.Weekday().String(); 0001-01-01 is a Monday
Weekday(t) ==
    LET names == <<"Sunday", "Monday", "Tuesday", "Wednesday", "Thursday",
                   "Friday", "Saturday">>
    IN  names[((t.day + 1) % 7) + 1]

(***************************************************************************)
(* time.Duration.  Go's Duration is an int64 count of nanoseconds whose    *)
(* sums wrap around and whose differences of Times saturate.  The model    *)
(* counts whole seconds in a signed integer of DurationBits bits: the      *)
(* saturation values and the wrap-around are those of the narrow integer,  *)
(* the timestamps of the model being either the zero Time or less than     *)
(* 2^(DurationBits-1) seconds apart.                                       *)
(***************************************************************************)
DurationBits == 31

MinDuration == -(2 ^ (DurationBits - 1))

MaxDuration == (2 ^ (DurationBits - 1)) - 1

\* the largest whole number of days an int64 of nanoseconds holds
MaxDurationDays == 106751

HourSeconds == 3600

\* a += b on Durations
DurAdd(a, b) ==
    LET sum == a + b
    IN  IF sum > MaxDuration THEN (sum + MinDuration) + MinDuration
        ELSE IF sum < MinDuration THEN (sum - MinDuration) - MinDuration
        ELSE sum

\* a.Sub(b)
Sub(a, b) ==
    IF a.day - b.day > MaxDurationDays THEN MaxDuration
    ELSE IF b.day - a.day > MaxDurationDays THEN MinDuration
    ELSE (a.day - b.day) * SecondsPerDay + (a.sec - b.sec)

\* integer division truncating toward zero, as Go's / and int(float64)
TruncDiv(a, b) == IF a >= 0 THEN a \div b ELSE -((-a) \div b)

\* int(d.Hours())
Hours(d) == TruncDiv(d, HourSeconds)

(***************************************************************************)
(* time.Parse for the three layouts parseDateTime uses.  A result is       *)
(* [ok |-> TRUE, t |-> Time] or ParseFail (the zero time and an error).    *)
(***************************************************************************)
ParseFail == [ok |-> FALSE, t |-> ZeroTime]

\* the date part: 4-digit year, 2-digit month, 2-digit day, each in range
DateOK(s) ==
    /\ Len(s) >= 4 /\ AllDigits(s, 1, 4)
    /\ AllDigits(s, 5, 2)
    /\ AllDigits(s, 7, 2)
    /\ Atoi(s, 5, 2) \in 1..12
    /\ Atoi(s, 7, 2) \in 1..DaysIn(Atoi(s, 5, 2), Atoi(s, 1, 4))

\* the clock part after the literal T at position 9: hour (getnum, not
\* fixed width), then fixed 2-digit minute and second, each in range
ClockOK(s) ==
    /\ CharAt(s, 9) = "T"
    /\ AllDigits(s, 10, 2) /\ AllDigits(s, 12, 2) /\ AllDigits(s, 14, 2)
    /\ Atoi(s, 10, 2) < 24 /\ Atoi(s, 12, 2) < 60 /\ Atoi(s, 14, 2) < 60

\* length of a fractional second ([.,] and digits) that Parse accepts
\* after the seconds although the layout has none; 0 when there is none
RECURSIVE DigitRun(_, _)
DigitRun(s, i) == IF IsDigitAt(s, i) THEN 1 + DigitRun(s, i + 1) ELSE 0

FracLen(s, i) ==
    IF i + 1 <= Len(s) /\ CharAt(s, i) \in {".", ","} /\ IsDigitAt(s, i + 1)
    THEN 1 + DigitRun(s, i + 1) ELSE 0

\* the fraction as nanoseconds: the first nine digits, right-padded
RECURSIVE FracNanos(_, _, _)
FracNanos(s, i, k) ==
    IF k = 0 THEN 0
    ELSE (IF IsDigitAt(s, i) THEN DigitVal[CharAt(s, i)] ELSE 0)
            * (10 ^ (k - 1)) + FracNanos(s, IF IsDigitAt(s, i) THEN i + 1 ELSE i, k - 1)

\* time.Parse(layout, s) where layout is 20060102T150405 followed by tail
\* ("Z" or "")
ParseStamp(s, tail) ==
    IF ~(DateOK(s) /\ Len(s) >= 15 /\ ClockOK(s)) THEN ParseFail
    ELSE LET f    == FracLen(s, 16)
             rest == SubSeq(s, 16 + f, Len(s))
             base == Date(Atoi(s, 1, 4), Atoi(s, 5, 2), Atoi(s, 7, 2),
                          Atoi(s, 10, 2), Atoi(s, 12, 2), Atoi(s, 14, 2))
         IN  IF rest # tail THEN ParseFail
             ELSE [ok |-> TRUE,
                   t  |-> [base EXCEPT !.nsec =
                              IF f = 0 THEN 0 ELSE FracNanos(s, 17, 9)]]

\* time.Parse("20060102", s)
ParseDate(s) ==
    IF DateOK(s) /\ Len(s) = 8
    THEN [ok |-> TRUE, t |-> Date(Atoi(s, 1, 4), Atoi(s, 5, 2), Atoi(s, 7, 2), 0, 0, 0)]
    ELSE ParseFail

\* the rule for a T tried before the rule for a trailing Z
parseDateTimeNaiveFirst(dtStr) ==
    IF dtStr = "" THEN ParseFail
    ELSE IF Len(dtStr) >= 15 /\ Contains(dtStr, "T") THEN ParseStamp(dtStr, "")
    ELSE IF Len(dtStr) >= 15 /\ HasSuffix(dtStr, "Z") THEN ParseStamp(dtStr, "Z")
    ELSE IF Len(dtStr) = 8 THEN ParseDate(dtStr)
    ELSE ParseFail

parseDateTime(dtStr) ==
    IF dtStr = "" THEN ParseFail
    ELSE IF Len(dtStr) >= 15 /\ HasSuffix(dtStr, "Z") THEN ParseStamp(dtStr, "Z")
    ELSE IF Len(dtStr) >= 15 /\ Contains(dtStr, "T") THEN ParseStamp(dtStr, "")
    ELSE IF Len(dtStr) = 8 THEN ParseDate(dtStr)
    ELSE ParseFail

extractDateTime(line) ==
    LET colonIndex == LastIndexColon(line)
    IN  IF colonIndex # -1 THEN SubSeq(line, colonIndex + 2, Len(line)) ELSE ""

(***************************************************************************)
(* CategorizationConfig.  A rule map is a function from rule names to      *)
(* records; ranging over it delivers the names in an order the caller      *)
(* cannot choose, passed here as the sequence order.                       *)
(***************************************************************************)
\* for _, keyword := range keywords { if strings.Contains(title, strings.ToLower(keyword)) ... }
KeywordHit(title, keywords) ==
    \E k \in 1..Len(keywords) : Contains(title, ToLower(keywords[k]))

\* the loop over the sorted names: the first name whose rule has a keyword
\* contained in title, "" when the loop ends without a return
RECURSIVE FirstHit(_, _, _, _)
FirstHit(title, names, rules, i) ==
    IF i > Len(names) THEN ""
    ELSE IF KeywordHit(title, rules[names[i]].Keywords) THEN names[i]
    ELSE FirstHit(title, names, rules, i + 1)

\* the general categories consulted before the event rules
CategorizeByKeywordsGeneralFirst(config, titleIn, eventOrder, categoryOrder) ==
    LET title         == ToLower(titleIn)
        eventTypes    == SortStrings(eventOrder)
        eventHit      == FirstHit(title, eventTypes, config.EventCategories, 1)
        categoryNames == SortStrings(categoryOrder)
        categoryHit   == FirstHit(title, categoryNames, config.Categories, 1)
    IN  IF categoryHit # "" THEN categoryHit
        ELSE IF eventHit # "" THEN eventHit
        ELSE "other"

\* the matching event rule's category field instead of its name
CategorizeByKeywordsDeclared(config, titleIn, eventOrder, categoryOrder) ==
    LET title         == ToLower(titleIn)
        eventTypes    == SortStrings(eventOrder)
        eventHit      == FirstHit(title, eventTypes, config.EventCategories, 1)
        categoryNames == SortStrings(categoryOrder)
        categoryHit   == FirstHit(title, categoryNames, config.Categories, 1)
    IN  IF eventHit # "" THEN config.EventCategories[eventHit].Category
        ELSE IF categoryHit # "" THEN categoryHit
        ELSE "other"

CategorizeByKeywords(config, titleIn, eventOrder, categoryOrder) ==
    LET title         == ToLower(titleIn)
        eventTypes    == SortStrings(eventOrder)
        eventHit      == FirstHit(title, eventTypes, config.EventCategories, 1)
        categoryNames == SortStrings(categoryOrder)
        categoryHit   == FirstHit(title, categoryNames, config.Categories, 1)
    IN  IF eventHit # "" THEN eventHit
        ELSE IF categoryHit # "" THEN categoryHit
        ELSE "other"

\* the bucket an event rule declares, when one matches
GetCategoryTimeByEventRule(config, titleIn, categoryOrder) ==
    LET title         == ToLower(titleIn)
        eventTypes    == SortStrings(CHOOSE order \in KeyOrders(DOMAIN config.EventCategories) : TRUE)
        eventHit      == FirstHit(title, eventTypes, config.EventCategories, 1)
        categoryNames == SortStrings(categoryOrder)
        categoryHit   == FirstHit(title, categoryNames, config.Categories, 1)
    IN  IF eventHit # "" THEN config.EventCategories[eventHit].Category
        ELSE IF categoryHit # "" THEN categoryHit
        ELSE "other"

GetCategoryTime(config, titleIn, categoryOrder) ==
    LET title         == ToLower(titleIn)
        categoryNames == SortStrings(categoryOrder)
        categoryHit   == FirstHit(title, categoryNames, config.Categories, 1)
    IN  IF categoryHit # "" THEN categoryHit ELSE "other"

CategorizeNotionPage(config, titleIn, notionOrder) ==
    LET title            == ToLower(titleIn)
        notionCategories == SortStrings(notionOrder)
        notionHit        == FirstHit(title, notionCategories, config.NotionCategories, 1)
    IN  IF notionHit # "" THEN notionHit ELSE "other"

\* the name of the matching rule as the category, without a display name
categorizeEventRuleName(config, title, eventOrder, categoryOrder) ==
    CategorizeByKeywords(config, title, eventOrder, categoryOrder)

\* CalendarAnalyzer.categorizeEvent
categorizeEvent(config, title, eventOrder, categoryOrder) ==
    LET category == CategorizeByKeywords(config, title, eventOrder, categoryOrder)
    IN  CASE category = "1on1 meetings" -> "1on1 Meetings"
          [] category = "daily standups" -> "Daily Standups"
          [] category = "regular meetings" -> "Regular Meetings"
          [] category = "general meetings" -> "General Meetings"
          [] category = "focus work" -> "Focus Work"
          [] category = "technical consultation" -> "Technical Consultation"
          [] category = "learning & training" -> "Learning & Training"
          [] category = "time off" -> "Time Off"
          [] category = "meeting" -> "General Meetings"
          [] category = "focus" -> "Focus Work"
          [] category = "learning" -> "Learning & Training"
          [] category = "admin" -> "Admin Work"
          [] OTHER -> "Other"

(***************************************************************************)
(* Event and parseICSFile                                                  *)
(***************************************************************************)
\* Event{}
EmptyEvent ==
    [UID |-> "", Summary |-> "", Start |-> ZeroTime, End |-> ZeroTime,
     Created |-> ZeroTime, IsAllDay |-> FALSE]

\* the loop body storing the zero time of a failed decode
ScanLineStoreFailed(st, text) ==
    LET line == TrimSpace(text)
        cur  == st.currentEvent
    IN  IF line = "BEGIN:VEVENT"
        THEN [st EXCEPT !.inEvent = TRUE, !.currentEvent = EmptyEvent]
        ELSE IF line = "END:VEVENT"
        THEN [st EXCEPT !.inEvent = FALSE,
                        !.events = IF st.inEvent THEN Append(@, cur) ELSE @]
        ELSE IF ~st.inEvent THEN st
        ELSE IF HasPrefix(line, "UID:")
        THEN [st EXCEPT !.currentEvent.UID = TrimPrefix(line, "UID:")]
        ELSE IF HasPrefix(line, "SUMMARY:")
        THEN [st EXCEPT !.currentEvent.Summary = TrimPrefix(line, "SUMMARY:")]
        ELSE IF HasPrefix(line, "DTSTART")
        THEN [st EXCEPT !.currentEvent.IsAllDay =
                            IF Contains(line, "VALUE=DATE") THEN TRUE ELSE @,
                        !.currentEvent.Start = parseDateTime(extractDateTime(line)).t]
        ELSE IF HasPrefix(line, "DTEND")
        THEN [st EXCEPT !.currentEvent.End = parseDateTime(extractDateTime(line)).t]
        ELSE IF HasPrefix(line, "CREATED:")
        THEN [st EXCEPT !.currentEvent.Created =
                            parseDateTime(TrimPrefix(line, "CREATED:")).t]
        ELSE st

\* the body of one iteration of the scanner loop of parseICSFile, on the
\* locals st = [inEvent, currentEvent, events]
\* the loop body with an accumulator that BEGIN:VEVENT does not clear
ScanLineKeepFields(st, text) ==
    LET line == TrimSpace(text)
        cur  == st.currentEvent
    IN  IF line = "BEGIN:VEVENT"
        THEN [st EXCEPT !.inEvent = TRUE]
        ELSE IF line = "END:VEVENT"
        THEN [st EXCEPT !.inEvent = FALSE,
                        !.events = IF st.inEvent THEN Append(@, cur) ELSE @]
        ELSE IF ~st.inEvent THEN st
        ELSE IF HasPrefix(line, "UID:")
        THEN [st EXCEPT !.currentEvent.UID = TrimPrefix(line, "UID:")]
        ELSE IF HasPrefix(line, "SUMMARY:")
        THEN [st EXCEPT !.currentEvent.Summary = TrimPrefix(line, "SUMMARY:")]
        ELSE IF HasPrefix(line, "DTSTART")
        THEN LET r == parseDateTime(extractDateTime(line))
             IN  [st EXCEPT !.currentEvent.IsAllDay =
                                IF Contains(line, "VALUE=DATE") THEN TRUE ELSE @,
                            !.currentEvent.Start = IF r.ok THEN r.t ELSE @]
        ELSE IF HasPrefix(line, "DTEND")
        THEN LET r == parseDateTime(extractDateTime(line))
             IN  [st EXCEPT !.currentEvent.End = IF r.ok THEN r.t ELSE @]
        ELSE IF HasPrefix(line, "CREATED:")
        THEN LET r == parseDateTime(TrimPrefix(line, "CREATED:"))
             IN  [st EXCEPT !.currentEvent.Created = IF r.ok THEN r.t ELSE @]
        ELSE st

ScanLine(st, text) ==
    LET line == TrimSpace(text)
        cur  == st.currentEvent
    IN  IF line = "BEGIN:VEVENT"
        THEN [st EXCEPT !.inEvent = TRUE, !.currentEvent = EmptyEvent]
        ELSE IF line = "END:VEVENT"
        THEN [st EXCEPT !.inEvent = FALSE,
                        !.events = IF st.inEvent THEN Append(@, cur) ELSE @]
        ELSE IF ~st.inEvent THEN st
        ELSE IF HasPrefix(line, "UID:")
        THEN [st EXCEPT !.currentEvent.UID = TrimPrefix(line, "UID:")]
        ELSE IF HasPrefix(line, "SUMMARY:")
        THEN [st EXCEPT !.currentEvent.Summary = TrimPrefix(line, "SUMMARY:")]
        ELSE IF HasPrefix(line, "DTSTART")
        THEN LET r == parseDateTime(extractDateTime(line))
             IN  [st EXCEPT !.currentEvent.IsAllDay =
                                IF Contains(line, "VALUE=DATE") THEN TRUE ELSE @,
                            !.currentEvent.Start = IF r.ok THEN r.t ELSE @]
        ELSE IF HasPrefix(line, "DTEND")
        THEN LET r == parseDateTime(extractDateTime(line))
             IN  [st EXCEPT !.currentEvent.End = IF r.ok THEN r.t ELSE @]
        ELSE IF HasPrefix(line, "CREATED:")
        THEN LET r == parseDateTime(TrimPrefix(line, "CREATED:"))
             IN  [st EXCEPT !.currentEvent.Created = IF r.ok THEN r.t ELSE @]
        ELSE st

\* bufio.MaxScanTokenSize, the buffer limit of bufio.NewScanner: a line of
\* this many bytes or more is no token
MaxScanTokenSize == 65536

\* the locals of parseICSFile before the loop
ScanStart == [inEvent |-> FALSE, currentEvent |-> EmptyEvent, events |-> <<>>]

\* return events, scanner.Err()
ScanReturnFlush(st, err) ==
    [events |-> IF st.inEvent THEN Append(st.events, st.currentEvent) ELSE st.events,
     err |-> err]

ScanReturn(st, err) == [events |-> st.events, err |-> err]

(***************************************************************************)
(* Range filter, all-day classifier and aggregations                       *)
(***************************************************************************)
\* the lower bound of the first CalendarAnalyzer: Start.After(startDate)
InRangeStrict(event, startDate, endDate) ==
    /\ ~IsZero(event.Start)
    /\ Before(startDate, event.Start)
    /\ Before(event.Start, AddDays(endDate, 1))

\* the upper bound without the added day
InRangeExclusiveEnd(event, startDate, endDate) ==
    /\ ~IsZero(event.Start)
    /\ ~Before(event.Start, startDate)
    /\ Before(event.Start, endDate)

\* the condition of filterEventsByDateRange
InRange(event, startDate, endDate) ==
    /\ ~IsZero(event.Start)
    /\ ~Before(event.Start, startDate)
    /\ Before(event.Start, AddDays(endDate, 1))

RECURSIVE filterFrom(_, _, _, _)
filterFrom(evs, startDate, endDate, i) ==
    IF i > Len(evs) THEN <<>>
    ELSE (IF InRange(evs[i], startDate, endDate) THEN <<evs[i]>> ELSE <<>>)
            \o filterFrom(evs, startDate, endDate, i + 1)

filterEventsByDateRange(evs, startDate, endDate) ==
    filterFrom(evs, startDate, endDate, 1)

isAllDayEvent(event) ==
    IF event.IsAllDay THEN TRUE
    ELSE IF ~IsZero(event.Start) /\ ~IsZero(event.End)
    THEN LET duration == Sub(event.End, event.Start)
             hours    == Hours(duration)
         IN  IF duration = 24 * HourSeconds THEN TRUE
             ELSE hours >= 24 /\ hours % 24 = 0
    ELSE FALSE

\* the condition under which calculateDuration and calculateTitleStats add
\* End.Sub(Start)
Timed(event) ==
    /\ ~isAllDayEvent(event) /\ ~IsZero(event.Start) /\ ~IsZero(event.End)
    /\ Sub(event.End, event.Start) > 0

\* the total over the events that have a title
RECURSIVE calculateDurationTitledFrom(_, _)
calculateDurationTitledFrom(evs, n) ==
    IF n = 0 THEN 0
    ELSE DurAdd(calculateDurationTitledFrom(evs, n - 1),
                IF Timed(evs[n]) /\ TrimSpace(evs[n].Summary) # ""
                THEN Sub(evs[n].End, evs[n].Start) ELSE 0)

\* the loop of calculateDuration over the first n events
RECURSIVE calculateDurationFrom(_, _)
calculateDurationFrom(evs, n) ==
    IF n = 0 THEN 0
    ELSE DurAdd(calculateDurationFrom(evs, n - 1),
                IF Timed(evs[n]) THEN Sub(evs[n].End, evs[n].Start) ELSE 0)

calculateDuration(evs) == calculateDurationFrom(evs, Len(evs))

\* the map keyed by the titles as they are written
RECURSIVE groupByWrittenTitleFrom(_, _)
groupByWrittenTitleFrom(evs, n) ==
    IF n = 0 THEN << >>
    ELSE LET grouped == groupByWrittenTitleFrom(evs, n - 1)
             title   == evs[n].Summary
         IN  IF title = "" THEN grouped
             ELSE IF title \in DOMAIN grouped
             THEN [grouped EXCEPT ![title] = Append(@, evs[n])]
             ELSE grouped @@ (title :> <<evs[n]>>)

\* the map after the first n events
RECURSIVE groupFrom(_, _)
groupFrom(evs, n) ==
    IF n = 0 THEN << >>
    ELSE LET grouped == groupFrom(evs, n - 1)
             title   == TrimSpace(evs[n].Summary)
         IN  IF title = "" THEN grouped
             ELSE IF title \in DOMAIN grouped
             THEN [grouped EXCEPT ![title] = Append(@, evs[n])]
             ELSE grouped @@ (title :> <<evs[n]>>)

groupEventsByTitle(evs) == groupFrom(evs, Len(evs))

\* the sum with the positivity test left out
RECURSIVE titleDurationRaw(_, _)
titleDurationRaw(evs, n) ==
    IF n = 0 THEN 0
    ELSE DurAdd(titleDurationRaw(evs, n - 1),
                IF /\ ~isAllDayEvent(evs[n])
                   /\ ~IsZero(evs[n].Start) /\ ~IsZero(evs[n].End)
                THEN Sub(evs[n].End, evs[n].Start) ELSE 0)

\* the inner loop of calculateTitleStats over the first n members
RECURSIVE titleDuration(_, _)
titleDuration(evs, n) ==
    IF n = 0 THEN 0
    ELSE DurAdd(titleDuration(evs, n - 1),
                IF Timed(evs[n]) THEN Sub(evs[n].End, evs[n].Start) ELSE 0)

\* setToSorted: the keys of a map, collected and sorted
SortedKeys(m) == SortStrings(CHOOSE order \in KeyOrders(DOMAIN m) : TRUE)

calculateTitleStats(groupedEvents) ==
    LET titles == SortedKeys(groupedEvents)
    IN  [k \in 1..Len(titles) |->
            [Title    |-> titles[k],
             Count    |-> Len(groupedEvents[titles[k]]),
             Duration |-> titleDuration(groupedEvents[titles[k]],
                                        Len(groupedEvents[titles[k]]))]]

\* the day span without the floor of one day
daySpanUnfloored(event) ==
    IF ~IsZero(event.Start) /\ ~IsZero(event.End)
    THEN TruncDiv(Sub(event.End, event.Start), 24 * HourSeconds)
    ELSE 1

\* the day span calculateAllDayStats adds for one all-day member
daySpan(event) ==
    IF ~IsZero(event.Start) /\ ~IsZero(event.End)
    THEN LET days == TruncDiv(Sub(event.End, event.Start), 24 * HourSeconds)
         IN  IF days > 0 THEN days ELSE 1
    ELSE 1

\* the inner loop of calculateAllDayStats over the first n members
RECURSIVE allDayTotals(_, _)
allDayTotals(evs, n) ==
    IF n = 0 THEN [allDayCount |-> 0, totalDays |-> 0]
    ELSE LET acc == allDayTotals(evs, n - 1)
         IN  IF isAllDayEvent(evs[n])
             THEN [allDayCount |-> acc.allDayCount + 1,
                   totalDays   |-> acc.totalDays + daySpan(evs[n])]
             ELSE acc

RECURSIVE allDayStatsFrom(_, _, _)
allDayStatsFrom(groupedEvents, titles, k) ==
    IF k > Len(titles) THEN <<>>
    ELSE LET evs == groupedEvents[titles[k]]
             acc == allDayTotals(evs, Len(evs))
         IN  (IF acc.allDayCount > 0
              THEN <<[Title    |-> titles[k],
                      Count    |-> acc.allDayCount,
                      Duration |-> acc.totalDays * 24 * HourSeconds]>>
              ELSE <<>>) \o allDayStatsFrom(groupedEvents, titles, k + 1)

calculateAllDayStats(groupedEvents) ==
    allDayStatsFrom(groupedEvents, SortedKeys(groupedEvents), 1)

\* the order in which a rule map delivers its keys during an aggregation
MapOrder(rules) == CHOOSE order \in KeyOrders(DOMAIN rules) : TRUE

\* the statistics with the positivity test of the per-title statistics
RECURSIVE categoryStatsPositiveFrom(_, _, _)
categoryStatsPositiveFrom(config, evs, n) ==
    IF n = 0
    THEN [Categories |-> << >>, MeetingTime |-> 0, FocusTime |-> 0,
          LearningTime |-> 0, AdminTime |-> 0]
    ELSE LET stats == categoryStatsPositiveFrom(config, evs, n - 1)
             event == evs[n]
         IN  IF event.IsAllDay THEN stats
             ELSE LET duration == IF Sub(event.End, event.Start) > 0
                                  THEN Sub(event.End, event.Start) ELSE 0
                      title    == ToLower(event.Summary)
                      category == categorizeEvent(config, title,
                                      MapOrder(config.EventCategories),
                                      MapOrder(config.Categories))
                      old      == IF category \in DOMAIN stats.Categories
                                  THEN stats.Categories[category]
                                  ELSE [Count |-> 0, Duration |-> 0, Events |-> <<>>]
                      info     == [Count    |-> old.Count + 1,
                                   Duration |-> DurAdd(old.Duration, duration),
                                   Events   |-> Append(old.Events, event)]
                      categoryType == GetCategoryTime(config, title,
                                          MapOrder(config.Categories))
                  IN  [Categories |->
                          (category :> info) @@ stats.Categories,
                       MeetingTime |->
                          IF categoryType = "meeting"
                          THEN DurAdd(stats.MeetingTime, duration) ELSE stats.MeetingTime,
                       FocusTime |->
                          IF categoryType = "focus"
                          THEN DurAdd(stats.FocusTime, duration) ELSE stats.FocusTime,
                       LearningTime |->
                          IF categoryType = "learning"
                          THEN DurAdd(stats.LearningTime, duration) ELSE stats.LearningTime,
                       AdminTime |->
                          IF categoryType = "admin"
                          THEN DurAdd(stats.AdminTime, duration) ELSE stats.AdminTime]

\* EventCategoryStats after the first n events
RECURSIVE categoryStatsFrom(_, _, _)
categoryStatsFrom(config, evs, n) ==
    IF n = 0
    THEN [Categories |-> << >>, MeetingTime |-> 0, FocusTime |-> 0,
          LearningTime |-> 0, AdminTime |-> 0]
    ELSE LET stats == categoryStatsFrom(config, evs, n - 1)
             event == evs[n]
         IN  IF event.IsAllDay THEN stats
             ELSE LET duration == Sub(event.End, event.Start)
                      title    == ToLower(event.Summary)
                      category == categorizeEvent(config, title,
                                      MapOrder(config.EventCategories),
                                      MapOrder(config.Categories))
                      old      == IF category \in DOMAIN stats.Categories
                                  THEN stats.Categories[category]
                                  ELSE [Count |-> 0, Duration |-> 0, Events |-> <<>>]
                      info     == [Count    |-> old.Count + 1,
                                   Duration |-> DurAdd(old.Duration, duration),
                                   Events   |-> Append(old.Events, event)]
                      categoryType == GetCategoryTime(config, title,
                                          MapOrder(config.Categories))
                  IN  [Categories |->
                          (category :> info) @@ stats.Categories,
                       MeetingTime |->
                          IF categoryType = "meeting"
                          THEN DurAdd(stats.MeetingTime, duration) ELSE stats.MeetingTime,
                       FocusTime |->
                          IF categoryType = "focus"
                          THEN DurAdd(stats.FocusTime, duration) ELSE stats.FocusTime,
                       LearningTime |->
                          IF categoryType = "learning"
                          THEN DurAdd(stats.LearningTime, duration) ELSE stats.LearningTime,
                       AdminTime |->
                          IF categoryType = "admin"
                          THEN DurAdd(stats.AdminTime, duration) ELSE stats.AdminTime]

analyzeCategoryStats(config, evs) == categoryStatsFrom(config, evs, Len(evs))

\* m[k] += d on a map of Durations
MapAdd(m, k, d) ==
    (k :> DurAdd(IF k \in DOMAIN m THEN m[k] ELSE 0, d)) @@ m

\* the accumulators with the hour bucket taken from the end of the event
RECURSIVE workingHoursByEndFrom(_, _)
workingHoursByEndFrom(evs, n) ==
    IF n = 0
    THEN [HourlyDistribution |-> << >>, DailyDistribution |-> << >>,
          TotalWorkingHours |-> 0]
    ELSE LET stats == workingHoursByEndFrom(evs, n - 1)
             event == evs[n]
         IN  IF event.IsAllDay THEN stats
             ELSE LET duration == Sub(event.End, event.Start)
                  IN  [HourlyDistribution |->
                          MapAdd(stats.HourlyDistribution, Hour(event.End), duration),
                       DailyDistribution |->
                          MapAdd(stats.DailyDistribution, Weekday(event.Start), duration),
                       TotalWorkingHours |->
                          DurAdd(stats.TotalWorkingHours, duration)]

\* the accumulators of analyzeWorkingHours after the first n events
RECURSIVE workingHoursFrom(_, _)
workingHoursFrom(evs, n) ==
    IF n = 0
    THEN [HourlyDistribution |-> << >>, DailyDistribution |-> << >>,
          TotalWorkingHours |-> 0]
    ELSE LET stats == workingHoursFrom(evs, n - 1)
             event == evs[n]
         IN  IF event.IsAllDay THEN stats
             ELSE LET duration == Sub(event.End, event.Start)
                  IN  [HourlyDistribution |->
                          MapAdd(stats.HourlyDistribution, Hour(event.Start), duration),
                       DailyDistribution |->
                          MapAdd(stats.DailyDistribution, Weekday(event.Start), duration),
                       TotalWorkingHours |->
                          DurAdd(stats.TotalWorkingHours, duration)]

\* ties broken by the later hour
HourBeforeLaterFirst(dist, h1, h2) ==
    IF dist[h1] = dist[h2] THEN h1 > h2 ELSE dist[h1] > dist[h2]

\* the less function of the sort of hourList
HourBefore(dist, h1, h2) ==
    IF dist[h1] = dist[h2] THEN h1 < h2 ELSE dist[h1] > dist[h2]

\* hourList after sort.Slice: the order is total, so the result is the one
\* sorted arrangement of the hours
RECURSIVE sortedHours(_, _)
sortedHours(dist, hours) ==
    IF hours = {} THEN <<>>
    ELSE LET first == CHOOSE h \in hours :
                        \A g \in hours \ {h} : HourBefore(dist, h, g)
         IN  <<first>> \o sortedHours(dist, hours \ {first})

\* a list of peak hours that always has three entries
analyzeWorkingHoursThreePeaks(evs) ==
    LET stats    == workingHoursFrom(evs, Len(evs))
        hourList == sortedHours(stats.HourlyDistribution,
                                DOMAIN stats.HourlyDistribution)
    IN  [HourlyDistribution |-> stats.HourlyDistribution,
         DailyDistribution  |-> stats.DailyDistribution,
         PeakHours          |-> [k \in 1..3 |-> IF k <= Len(hourList)
                                                 THEN hourList[k] ELSE 0],
         TotalWorkingHours  |-> stats.TotalWorkingHours]

analyzeWorkingHours(evs) ==
    LET stats    == workingHoursFrom(evs, Len(evs))
        hourList == sortedHours(stats.HourlyDistribution,
                                DOMAIN stats.HourlyDistribution)
    IN  [HourlyDistribution |-> stats.HourlyDistribution,
         DailyDistribution  |-> stats.DailyDistribution,
         PeakHours          |-> SubSeq(hourList, 1, Min(Len(hourList), 3)),
         TotalWorkingHours  |-> stats.TotalWorkingHours]

\* Go's a % b: the remainder has the sign of a
GoRem(a, b) == a - b * TruncDiv(a, b)

\* int(d.Minutes())
Minutes(d) == TruncDiv(d, 60)

\* CalendarAnalyzer.formatDuration: <<hours, minutes>> for %dh%dm, <<minutes>>
\* for %dm
formatDuration(d) ==
    LET hours   == Hours(d)
        minutes == GoRem(Minutes(d), 60)
    IN  IF hours > 0 THEN <<hours, minutes>> ELSE <<minutes>>

\* the duration printResults prints after an event
eventDuration(event) ==
    IF isAllDayEvent(event) THEN [allDay |-> TRUE]
    ELSE IF ~IsZero(event.Start) /\ ~IsZero(event.End)
    THEN [hm |-> formatDuration(Sub(event.End, event.Start))]
    ELSE [none |-> TRUE]

\* the duration printResults prints in the rows of the title rankings
statDuration(stat) ==
    LET hours   == Hours(stat.Duration)
        minutes == GoRem(Minutes(stat.Duration), 60)
    IN  IF hours > 0 \/ minutes > 0 THEN [hm |-> <<hours, minutes>>]
        ELSE [none |-> TRUE]

\* ties broken by the larger title
RankBeforeLargerTitle(a, b, key) ==
    IF a[key] = b[key] THEN StrLess(b.Title, a.Title) ELSE a[key] > b[key]

\* the less functions of the three rankings of printResults, key being the
\* field they compare (Count or Duration)
RankBefore(a, b, key) ==
    IF a[key] = b[key] THEN StrLess(a.Title, b.Title) ELSE a[key] > b[key]

\* insertion of st into a ranked list, before the first entry it ranks before
RECURSIVE rankInsert(_, _, _)
rankInsert(ranked, st, key) ==
    IF ranked = <<>> THEN <<st>>
    ELSE IF RankBefore(st, Head(ranked), key) THEN <<st>> \o ranked
    ELSE <<Head(ranked)>> \o rankInsert(Tail(ranked), st, key)

\* sort.Slice on a copy of stats with the less function of key: the titles
\* of a statistics list are distinct, so the less function is a total order
\* and the sorted arrangement is unique
RECURSIVE rankFrom(_, _, _)
rankFrom(stats, n, key) ==
    IF n = 0 THEN <<>> ELSE rankInsert(rankFrom(stats, n - 1, key), stats[n], key)

sortedByCount(titleStats) == rankFrom(titleStats, Len(titleStats), "Count")

sortedByDuration(titleStats) == rankFrom(titleStats, Len(titleStats), "Duration")

sortedByDays(allDayStats) == rankFrom(allDayStats, Len(allDayStats), "Duration")

\* the rows printed for the ranking by count
RECURSIVE countRows(_, _)
countRows(sorted, i) ==
    IF i > Len(sorted) THEN <<>>
    ELSE <<[text |-> "by count", rank |-> i, Title |-> sorted[i].Title,
            Count |-> sorted[i].Count, duration |-> statDuration(sorted[i])]>>
         \o countRows(sorted, i + 1)

\* the rows printed for the ranking by duration: none for a duration under
\* a minute
RECURSIVE durationRows(_, _)
durationRows(sorted, i) ==
    IF i > Len(sorted) THEN <<>>
    ELSE (IF statDuration(sorted[i]) # [none |-> TRUE]
          THEN <<[text |-> "by duration", rank |-> i, Title |-> sorted[i].Title,
                  Count |-> sorted[i].Count, duration |-> statDuration(sorted[i])]>>
          ELSE <<>>) \o durationRows(sorted, i + 1)

\* the rows printed for the ranking of the all-day statistics
RECURSIVE dayRows(_, _)
dayRows(sorted, i) ==
    IF i > Len(sorted) THEN <<>>
    ELSE <<[text |-> "by days", rank |-> i, Title |-> sorted[i].Title,
            Count |-> sorted[i].Count,
            totalDays |-> TruncDiv(sorted[i].Duration, 24 * HourSeconds)]>>
         \o dayRows(sorted, i + 1)

\* the keys of result.Summary, as Analyze writes them
summaryKeys ==
    <<"Total events", "Total duration", "Event titles", "All-day events",
      "Meeting time", "Focus time", "Learning time", "Admin time",
      "Total working hours", "Event categories">>

\* AnalysisResult.PrintSummary: a header, then key and value by sorted key
PrintSummary(result) ==
    LET keys == SortStrings(summaryKeys)
    IN  <<[text |-> "summary", name |-> result.AnalyzerName,
           from |-> result.StartDate, to |-> result.EndDate]>>
        \o [k \in 1..Len(keys) |->
                [text |-> "summary value", key |-> keys[k],
                 value |-> result.Summary[keys[k]]]]

\* the lines printResults writes
printResults(result, evs, titleStats, allDayStats, categoryStats, workingHoursStats) ==
    <<[text |-> "Calendar events", from |-> result.StartDate, to |-> result.EndDate]>>
    \o [k \in 1..Len(evs) |->
            [text |-> "event", start |-> evs[k].Start, summary |-> evs[k].Summary,
             duration |-> eventDuration(evs[k])]]
    \o PrintSummary(result)
    \o <<[text |-> "Top events by count"]>>
    \o countRows(sortedByCount(titleStats), 1)
    \o <<[text |-> "Top events by total duration"]>>
    \o durationRows(sortedByDuration(titleStats), 1)
    \o (IF Len(allDayStats) > 0
        THEN <<[text |-> "All-day events ranking by total days"]>>
             \o dayRows(sortedByDays(allDayStats), 1)
        ELSE <<>>)
    \o <<[text |-> "Work Category Analysis"],
          [text |-> "Meeting time", hm |-> formatDuration(categoryStats.MeetingTime)],
          [text |-> "Focus time", hm |-> formatDuration(categoryStats.FocusTime)],
          [text |-> "Learning time", hm |-> formatDuration(categoryStats.LearningTime)],
          [text |-> "Admin time", hm |-> formatDuration(categoryStats.AdminTime)],
          [text |-> "Working Hours Analysis"],
          [text |-> "Total working hours",
           hm |-> formatDuration(workingHoursStats.TotalWorkingHours)]>>
    \o (IF Len(workingHoursStats.PeakHours) > 0
        THEN <<[text |-> "Peak activity hours", hours |-> workingHoursStats.PeakHours]>>
        ELSE <<>>)

\* the lines a calendar file of the parser specification is made of
FileLines ==
    {"BEGIN:VEVENT", "END:VEVENT", "UID:a", "  UID:b ",
     "DTSTART;VALUE=DATE:20240103", "X-NOTE:n"}

NoRet == [kind |-> "none"]

\* the parser's locals when no file is being parsed
ParserIdle ==
    /\ content = <<>>
    /\ inEvent = ScanStart.inEvent
    /\ currentEvent = ScanStart.currentEvent
    /\ events = ScanStart.events

\* the locals of Analyze before it runs
AnalyzeIdle ==
    /\ idx = 0
    /\ allEvents = <<>>
    /\ writer = <<>>
    /\ filteredEvents = <<>>

Locals == [inEvent |-> inEvent, currentEvent |-> currentEvent, events |-> events]

\* the locals of main before it runs
MainIdle ==
    /\ analyzers = << >>
    /\ analyzersToRun = <<>>
    /\ runs = <<>>
    /\ results = <<>>

InitParse ==
    /\ pc = "open"
    /\ input = [kind |-> "parse", lines |-> FileLines]
    /\ ParserIdle
    /\ AnalyzeIdle
    /\ MainIdle
    /\ ret = NoRet

\* os.Open succeeds
OpenOK ==
    /\ pc = "open"
    /\ pc' = "scan"
    /\ UNCHANGED <<input, content, inEvent, currentEvent, events, ret>>
    /\ UNCHANGED analyzeVars
    /\ UNCHANGED mainVars

\* os.Open fails: return nil, err
OpenFail ==
    /\ pc = "open"
    /\ pc' = "ret"
    /\ ret' = [kind |-> "parse", events |-> <<>>, err |-> "open"]
    /\ UNCHANGED <<input, content, inEvent, currentEvent, events>>
    /\ UNCHANGED analyzeVars
    /\ UNCHANGED mainVars

\* scanner.Scan() delivers one more line and the loop body runs on it
ScanNext ==
    /\ pc = "scan"
    /\ Len(content) < MaxLines
    /\ \E text \in input.lines :
          LET st == ScanLine(Locals, text)
          IN  /\ Len(text) < MaxScanTokenSize
              /\ content' = Append(content, text)
              /\ inEvent' = st.inEvent
              /\ currentEvent' = st.currentEvent
              /\ events' = st.events
    /\ UNCHANGED <<pc, input, ret>>
    /\ UNCHANGED analyzeVars
    /\ UNCHANGED mainVars

\* scanner.Scan() returns false at end of file: scanner.Err() is nil
ScanEOF ==
    /\ pc = "scan"
    /\ pc' = "ret"
    /\ ret' = [kind |-> "parse"] @@ ScanReturn(Locals, "nil")
    /\ UNCHANGED <<input, content, inEvent, currentEvent, events>>
    /\ UNCHANGED analyzeVars
    /\ UNCHANGED mainVars

\* scanner.Scan() returns false on a line that does not fit the buffer of
\* the scanner: scanner.Err() is bufio.ErrTooLong
ScanTooLong ==
    /\ pc = "scan"
    /\ Len(content) < MaxLines
    /\ \E text \in input.lines :
          /\ Len(text) >= MaxScanTokenSize
          /\ ret' = [kind |-> "parse", line |-> text] @@
                        ScanReturn(Locals, "token too long")
    /\ pc' = "ret"
    /\ UNCHANGED <<input, content, inEvent, currentEvent, events>>
    /\ UNCHANGED analyzeVars
    /\ UNCHANGED mainVars

\* scanner.Scan() returns false on a read error
ScanFail ==
    /\ pc = "scan"
    /\ pc' = "ret"
    /\ ret' = [kind |-> "parse"] @@ ScanReturn(Locals, "scan")
    /\ UNCHANGED <<input, content, inEvent, currentEvent, events>>
    /\ UNCHANGED analyzeVars
    /\ UNCHANGED mainVars

NextParse == OpenOK \/ OpenFail \/ ScanNext \/ ScanEOF \/ ScanFail

SpecParse == InitParse /\ [][NextParse]_vars

(***************************************************************************)
(* Classification: one call of an entry point on a rule set, a title and   *)
(* the orders in which the three rule maps deliver their keys.             *)
(***************************************************************************)
\* the rule set of the end-to-end scenario
ScenarioConfig ==
    [EventCategories |->
        [n \in {"standup"} |-> [Keywords |-> <<"standup">>, Category |-> "meeting"]],
     Categories |->
        [n \in {"focus"} |-> [Name |-> "Focus time", Keywords |-> <<"focus work">>]],
     NotionCategories |->
        [n \in {"meeting notes"} |-> [Keywords |-> <<"mtg", "meeting">>]]]

\* a rule set in the shape of config/categorization.yaml whose keywords collide
CollidingConfig ==
    [EventCategories |->
        [n \in {"general meetings", "1on1 meetings", "focus work"} |->
            CASE n = "general meetings" ->
                    [Keywords |-> <<"mtg", "meeting">>, Category |-> "meeting"]
              [] n = "1on1 meetings" ->
                    [Keywords |-> <<"1on1">>, Category |-> "meeting"]
              [] n = "focus work" ->
                    [Keywords |-> <<"block", "Focus">>, Category |-> "focus"]],
     Categories |->
        [n \in {"meeting", "focus", "admin"} |->
            CASE n = "meeting" ->
                    [Name |-> "Meeting time", Keywords |-> <<"mtg", "meeting", "1on1">>]
              [] n = "focus" ->
                    [Name |-> "Focus time", Keywords |-> <<"block", "focus">>]
              [] n = "admin" ->
                    [Name |-> "Admin time", Keywords |-> <<"admin", "Room">>]],
     NotionCategories |->
        [n \in {"meeting notes", "daily work log", "technical documentation"} |->
            CASE n = "meeting notes" -> [Keywords |-> <<"mtg", "meeting">>]
              [] n = "daily work log" -> [Keywords |-> <<"work", "1on1">>]
              [] n = "technical documentation" -> [Keywords |-> <<"api", "Meeting">>]]]

Configs == {ScenarioConfig, CollidingConfig}

ScenarioTitle == "Morning Standup Focus Work"

Titles ==
    {ScenarioTitle, "1on1 Meeting", "Focus block", "Admin meeting room",
     "API work MTG", "Lunch", "Room booking"}

InitClassify ==
    /\ pc = "call"
    /\ \E config \in Configs, title \in Titles :
        \E eventOrder \in KeyOrders(DOMAIN config.EventCategories),
           categoryOrder \in KeyOrders(DOMAIN config.Categories),
           notionOrder \in KeyOrders(DOMAIN config.NotionCategories) :
            input = [kind |-> "classify", config |-> config, title |-> title,
                     eventOrder |-> eventOrder, categoryOrder |-> categoryOrder,
                     notionOrder |-> notionOrder]
    /\ ParserIdle
    /\ AnalyzeIdle
    /\ MainIdle
    /\ ret = NoRet

Return(kind, value) ==
    /\ pc' = "ret"
    /\ ret' = [kind |-> kind, value |-> value]
    /\ UNCHANGED <<input, content, inEvent, currentEvent, events>>
    /\ UNCHANGED analyzeVars
    /\ UNCHANGED mainVars

CallCategorizeByKeywords ==
    /\ pc = "call"
    /\ input.kind = "classify"
    /\ Return("CategorizeByKeywords",
              CategorizeByKeywords(input.config, input.title,
                                   input.eventOrder, input.categoryOrder))

CallGetCategoryTime ==
    /\ pc = "call"
    /\ input.kind = "classify"
    /\ Return("GetCategoryTime",
              GetCategoryTime(input.config, input.title, input.categoryOrder))

CallCategorizeNotionPage ==
    /\ pc = "call"
    /\ input.kind = "classify"
    /\ Return("CategorizeNotionPage",
              CategorizeNotionPage(input.config, input.title, input.notionOrder))

\* analyzeCategoryStats hands categorizeEvent the lowercased summary
CallCategorizeEvent ==
    /\ pc = "call"
    /\ input.kind = "classify"
    /\ Return("categorizeEvent",
              categorizeEvent(input.config, ToLower(input.title),
                              input.eventOrder, input.categoryOrder))

NextClassify ==
    \/ CallCategorizeByKeywords
    \/ CallGetCategoryTime
    \/ CallCategorizeNotionPage
    \/ CallCategorizeEvent

SpecClassify == InitClassify /\ [][NextClassify]_vars

\* case folding of one character
Fold(c) == IF c \in DOMAIN UpperToLower THEN UpperToLower[c] ELSE c

\* keyword occurs in title, letter case ignored
FoldedSubstring(title, keyword) ==
    \E i \in 0..(Len(title) - Len(keyword)) :
        \A j \in 1..Len(keyword) :
            Fold(CharAt(title, i + j)) = Fold(CharAt(keyword, j))

\* the names of the rules of a rule map that match the title
Matching(rules, title) ==
    {n \in DOMAIN rules :
        \E k \in 1..Len(rules[n].Keywords) : FoldedSubstring(title, rules[n].Keywords[k])}

\* the lexicographically smallest name of a non-empty set of names
MinName(S) == CHOOSE n \in S : \A m \in S : m = n \/ StrLess(n, m)

Classified(kind) == pc = "ret" /\ ret.kind = kind

(***************************************************************************)
(* C2: for CategorizeByKeywords, GetCategoryTime and CategorizeNotionPage, *)
(* when two or more rules of the rule map that decides the result have a   *)
(* keyword that is a case-insensitive substring of the title, the result   *)
(* is the lexicographically smallest name among them, whatever the order   *)
(* in which the map delivers its keys (so the result is a function of the  *)
(* rule set and the title alone).                                          *)
(***************************************************************************)
C2_SmallestNameWins ==
    LET me == Matching(input.config.EventCategories, input.title)
        mc == Matching(input.config.Categories, input.title)
        mn == Matching(input.config.NotionCategories, input.title)
    IN  /\ (Classified("CategorizeByKeywords") /\ Cardinality(me) >= 2)
                => ret.value = MinName(me)
        /\ (Classified("CategorizeByKeywords") /\ me = {} /\ Cardinality(mc) >= 2)
                => ret.value = MinName(mc)
        /\ (Classified("GetCategoryTime") /\ Cardinality(mc) >= 2)
                => ret.value = MinName(mc)
        /\ (Classified("CategorizeNotionPage") /\ Cardinality(mn) >= 2)
                => ret.value = MinName(mn)

\* two event rules match and the map delivered the larger name first
C2_Witness ==
    LET me == Matching(input.config.EventCategories, input.title)
    IN  /\ Classified("CategorizeByKeywords")
        /\ Cardinality(me) >= 2
        /\ input.eventOrder[1] \in me
        /\ input.eventOrder[1] # MinName(me)
        /\ ret.value = MinName(me)

InScenario == input.config = ScenarioConfig /\ input.title = ScenarioTitle

IsBegin(text) == TrimSpace(text) = "BEGIN:VEVENT"
IsEnd(text) == TrimSpace(text) = "END:VEVENT"
IsDelim(text) == IsBegin(text) \/ IsEnd(text)

\* positions of the delimiter lines, in file order
RECURSIVE DelimPos(_, _)
DelimPos(ls, i) ==
    IF i > Len(ls) THEN <<>>
    ELSE (IF IsDelim(ls[i]) THEN <<i>> ELSE <<>>) \o DelimPos(ls, i + 1)

\* BEGIN and END lines alternate, starting with BEGIN
Alternating(ls) ==
    LET d == DelimPos(ls, 1)
    IN  \A k \in 1..Len(d) :
            IF k % 2 = 1 THEN IsBegin(ls[d[k]]) ELSE IsEnd(ls[d[k]])

CompletedPairs(ls) == Len(DelimPos(ls, 1)) \div 2

\* the UID set by the lines of the k-th BEGIN/END pair ("" when none)
PairUID(ls, k) ==
    LET d    == DelimPos(ls, 1)
        uids == {i \in (d[2 * k - 1] + 1)..(d[2 * k] - 1) :
                    HasPrefix(TrimSpace(ls[i]), "UID:")}
    IN  IF uids = {} THEN ""
        ELSE TrimPrefix(TrimSpace(ls[CHOOSE i \in uids : \A j \in uids : j <= i]), "UID:")

(***************************************************************************)
(* C1: when the BEGIN:VEVENT and END:VEVENT lines of a file alternate      *)
(* (starting with BEGIN:VEVENT), parseICSFile returns exactly one Event    *)
(* per completed BEGIN/END pair, in file order (the k-th Event carries the *)
(* UID of the k-th pair); a trailing BEGIN:VEVENT without END:VEVENT adds  *)
(* no Event.                                                               *)
(***************************************************************************)
C1_OneEventPerPair ==
    (pc = "ret" /\ ret.kind = "parse" /\ ret.err = "nil" /\ Alternating(content)) =>
        /\ Len(ret.events) = CompletedPairs(content)
        /\ \A k \in 1..Len(ret.events) : ret.events[k].UID = PairUID(content, k)

\* a file with a completed pair that set a UID, then an unterminated block
\* that had accumulated a field when the file ended
C1_Witness ==
    /\ pc = "ret" /\ ret.kind = "parse" /\ ret.err = "nil"
    /\ Alternating(content)
    /\ Len(DelimPos(content, 1)) = 3
    /\ ret.events[1].UID = "b"
    /\ inEvent /\ currentEvent.UID = "a"

(***************************************************************************)
(* parseICSFile on a file whose datetime values may fail to decode         *)
(***************************************************************************)
\* a start that decodes; a start marked date-only, an end and a creation
\* time that do not decode
FieldLines ==
    {"BEGIN:VEVENT", "END:VEVENT", "SUMMARY:Sync", "DTSTART:20240102T090000Z",
     "DTSTART;VALUE=DATE:202401", "DTEND:2024-01-02T10:00:00Z", "CREATED:"}

InitParseFields ==
    /\ pc = "open"
    /\ input = [kind |-> "parse", lines |-> FieldLines]
    /\ ParserIdle
    /\ AnalyzeIdle
    /\ MainIdle
    /\ ret = NoRet

SpecParseFields == InitParseFields /\ [][NextParse]_vars

\* the lines of the k-th BEGIN/END pair, trimmed, in file order
SpanLines(ls, k) ==
    LET d == DelimPos(ls, 1)
    IN  [i \in 1..(d[2 * k] - d[2 * k - 1] - 1) |-> TrimSpace(ls[d[2 * k - 1] + i])]

\* what the decoder makes of the value of a datetime line
Decoded(line, prefix) ==
    parseDateTime(IF prefix = "CREATED:" THEN TrimPrefix(line, prefix)
                  ELSE extractDateTime(line))

\* the lines of a span with the prefix, by position
WithPrefix(span, prefix) == {i \in 1..Len(span) : HasPrefix(span[i], prefix)}

\* the value of the last line of the span with the prefix that decodes,
\* absent when there is none
LastDecoded(span, prefix) ==
    LET good == {i \in WithPrefix(span, prefix) : Decoded(span[i], prefix).ok}
    IN  IF good = {} THEN ZeroTime
        ELSE Decoded(span[CHOOSE i \in good : \A j \in good : j <= i], prefix).t

\* the text after the prefix of the last line of the span with the prefix
LastText(span, prefix) ==
    LET hits == WithPrefix(span, prefix)
    IN  IF hits = {} THEN ""
        ELSE TrimPrefix(span[CHOOSE i \in hits : \A j \in hits : j <= i], prefix)

\* some line of the span with the prefix does not decode
SomeFailed(span, prefix) ==
    \E i \in WithPrefix(span, prefix) : ~Decoded(span[i], prefix).ok

ParsedBlocks ==
    pc = "ret" /\ ret.kind = "parse" /\ ret.err = "nil" /\ Alternating(content)

(***************************************************************************)
(* C15 as stated: when the value of a DTSTART, DTEND or CREATED line fails *)
(* to decode, the corresponding field of the emitted Event is absent, the  *)
(* block is still emitted and the remaining blocks are still parsed.       *)
(***************************************************************************)
C15_FailedFieldAbsent ==
    ParsedBlocks =>
        /\ Len(ret.events) = CompletedPairs(content)
        /\ \A k \in 1..Len(ret.events) :
              LET span == SpanLines(content, k)
              IN  /\ SomeFailed(span, "DTSTART") => IsZero(ret.events[k].Start)
                  /\ SomeFailed(span, "DTEND") => IsZero(ret.events[k].End)
                  /\ SomeFailed(span, "CREATED:") => IsZero(ret.events[k].Created)

(***************************************************************************)
(* C15 amended: a DTSTART, DTEND or CREATED line whose value fails to      *)
(* decode leaves the corresponding field as it was: the field of the       *)
(* emitted Event is the value of the last line of that property in the     *)
(* block that did decode, and absent (never a partial value) when there is *)
(* none; the other fields are what the other lines of the block set,       *)
(* the all-day flag being set by a DTSTART line that carries VALUE=DATE    *)
(* even when its value fails to decode; the block is still emitted at      *)
(* END:VEVENT and the remaining blocks of the file are still parsed.       *)
(***************************************************************************)
C15_FailedFieldKeepsValue ==
    ParsedBlocks =>
        /\ Len(ret.events) = CompletedPairs(content)
        /\ \A k \in 1..Len(ret.events) :
              LET span == SpanLines(content, k)
                  ev   == ret.events[k]
              IN  /\ ev.Start = LastDecoded(span, "DTSTART")
                  /\ ev.End = LastDecoded(span, "DTEND")
                  /\ ev.Created = LastDecoded(span, "CREATED:")
                  /\ ev.Summary = LastText(span, "SUMMARY:")
                  /\ ev.UID = LastText(span, "UID:")
                  /\ ev.IsAllDay <=>
                        \E i \in WithPrefix(span, "DTSTART") :
                            Contains(span[i], "VALUE=DATE")

\* a block whose only line is a start marked date-only that did not
\* decode, emitted marked all-day and without start, and the block after
\* it emitted too
C15_Witness ==
    /\ ParsedBlocks
    /\ Len(ret.events) = 2
    /\ SomeFailed(SpanLines(content, 1), "DTSTART")
    /\ ret.events[1].IsAllDay
    /\ IsZero(ret.events[1].Start)
    /\ ret.events[2] = EmptyEvent

(***************************************************************************)
(* CalendarAnalyzer.Analyze.  The directory is the sequence of calls that  *)
(* filepath.Walk makes to its callback when no call aborts it: one record  *)
(* per call with the name of the path, whether Walk passes an error        *)
(* (walkErr: the path cannot be stat'ed or the directory cannot be         *)
(* listed), and, for a path that parseICSFile may be asked to open, its    *)
(* lines and the fault of reading it.                                      *)
(***************************************************************************)
\* the whole of parseICSFile on a path whose reading delivers the first
\* faultAt lines and then fails (fault "scan"), cannot be opened at all
\* (fault "open"), or delivers every line (fault "none")
RECURSIVE scanLines(_, _)
scanLines(lines, n) ==
    IF n = 0 THEN ScanStart ELSE ScanLine(scanLines(lines, n - 1), lines[n])

parseICSFile(file) ==
    IF file.fault = "open" THEN [events |-> <<>>, err |-> "open"]
    ELSE IF file.fault = "scan"
    THEN ScanReturn(scanLines(file.lines, file.faultAt), "scan")
    ELSE ScanReturn(scanLines(file.lines, Len(file.lines)), "nil")

\* strings.HasSuffix(strings.ToLower(info.Name()), ".ics")
IsCalendarName(name) == HasSuffix(ToLower(name), ".ics")

\* the callback returns the parse error instead of nil
callbackErrorStrict(entry, parsed) ==
    IF entry.walkErr THEN "walk"
    ELSE IF IsCalendarName(entry.name) /\ parsed.err # "nil" THEN parsed.err
    ELSE "nil"

\* the error the walk callback returns for one call
callbackError(entry, parsed) == IF entry.walkErr THEN "walk" ELSE "nil"

\* the events of a failed parse are kept
collectEventsPartial(all, parsed) == all \o parsed.events

\* allEvents after the callback has parsed one calendar file
collectEvents(all, parsed) ==
    IF parsed.err # "nil" THEN all ELSE all \o parsed.events

\* what the callback writes for one calendar file
callbackLines(entry, parsed) ==
    <<[text |-> "Reading calendar file", path |-> entry.name]>> \o
    (IF parsed.err # "nil"
     THEN <<[text |-> "Error parsing ICS file", path |-> entry.name],
            [text |-> "Continuing with other files", path |-> ""]>>
     ELSE <<[text |-> "Successfully parsed", path |-> entry.name]>>)

\* insertion of e after the elements that do not start after it: the
\* arrangement sort.Slice leaves for the short slices of the model
RECURSIVE insertByStart(_, _)
insertByStart(sorted, e) ==
    IF sorted = <<>> THEN <<e>>
    ELSE IF Before(e.Start, sorted[Len(sorted)].Start)
    THEN Append(insertByStart(SubSeq(sorted, 1, Len(sorted) - 1), e),
                sorted[Len(sorted)])
    ELSE Append(sorted, e)

RECURSIVE sortByStartFrom(_, _)
sortByStartFrom(evs, n) ==
    IF n = 0 THEN <<>> ELSE insertByStart(sortByStartFrom(evs, n - 1), evs[n])

\* sort.Slice(filteredEvents, Start.Before)
sortByStart(evs) == sortByStartFrom(evs, Len(evs))

\* the ASCII keywords of config/categorization.yaml
YamlConfig ==
    [EventCategories |->
        [n \in {"1on1 meetings", "general meetings", "focus work"} |->
            CASE n = "1on1 meetings" ->
                    [Keywords |-> <<"1on1">>, Category |-> "meeting"]
              [] n = "general meetings" ->
                    [Keywords |-> <<"mtg", "meeting">>, Category |-> "meeting"]
              [] n = "focus work" ->
                    [Keywords |-> <<"block">>, Category |-> "focus"]],
     Categories |->
        [n \in {"meeting", "focus", "learning", "admin"} |->
            CASE n = "meeting" ->
                    [Name |-> "Meeting time", Keywords |-> <<"mtg", "meeting", "1on1">>]
              [] n = "focus" ->
                    [Name |-> "Focus time", Keywords |-> <<"block", "focus">>]
              [] n = "learning" ->
                    [Name |-> "Learning time", Keywords |-> <<"training">>]
              [] n = "admin" ->
                    [Name |-> "Admin time", Keywords |-> <<"admin">>]],
     NotionCategories |->
        [n \in {"meeting notes"} |-> [Keywords |-> <<"mtg", "meeting">>]]]

ValidateConfig ==
    /\ pc = "validate"
    /\ IF input.dirExists
       THEN /\ pc' = "walk"
            /\ writer' = Append(writer, [text |-> "Analyzing calendar events", path |-> ""])
            /\ ret' = ret
       ELSE /\ pc' = "ret"
            /\ ret' = [kind |-> "Analyze", err |-> "config"]
            /\ writer' = writer
    /\ UNCHANGED <<input, idx, allEvents, filteredEvents>>
    /\ UNCHANGED parserVars
    /\ UNCHANGED mainVars

\* one call of the callback of filepath.Walk, and the return of
\* readAllICSFiles and Analyze when the callback returns an error
WalkVisit ==
    /\ pc = "walk"
    /\ idx < Len(input.dir)
    /\ LET entry  == input.dir[idx + 1]
           parsed == parseICSFile(entry)
           err    == callbackError(entry, parsed)
       IN  /\ idx' = idx + 1
           /\ IF entry.walkErr \/ ~IsCalendarName(entry.name)
              THEN UNCHANGED <<allEvents, writer>>
              ELSE /\ allEvents' = collectEvents(allEvents, parsed)
                   /\ writer' = writer \o callbackLines(entry, parsed)
           /\ IF err # "nil"
              THEN /\ pc' = "ret"
                   /\ ret' = [kind |-> "Analyze", err |-> err]
              ELSE UNCHANGED <<pc, ret>>
    /\ UNCHANGED <<input, filteredEvents>>
    /\ UNCHANGED parserVars
    /\ UNCHANGED mainVars

\* filepath.Walk returns nil: readAllICSFiles returns allEvents
WalkDone ==
    /\ pc = "walk"
    /\ idx = Len(input.dir)
    /\ pc' = "filter"
    /\ writer' = Append(writer, [text |-> "Total events parsed from all files", path |-> ""])
    /\ UNCHANGED <<input, idx, allEvents, filteredEvents, ret>>
    /\ UNCHANGED parserVars
    /\ UNCHANGED mainVars

FilterAndSort ==
    /\ pc = "filter"
    /\ pc' = "stats"
    /\ filteredEvents' =
          sortByStart(filterEventsByDateRange(allEvents, input.StartDate, input.EndDate))
    /\ UNCHANGED <<input, idx, allEvents, writer, ret>>
    /\ UNCHANGED parserVars
    /\ UNCHANGED mainVars

\* the statistics of Analyze, its result and what printResults writes
Summarize ==
    /\ pc = "stats"
    /\ pc' = "ret"
    /\ \E totalDuration \in {calculateDuration(filteredEvents)},
          groupedByTitle \in {groupEventsByTitle(filteredEvents)},
          categoryStats \in {analyzeCategoryStats(input.config, filteredEvents)},
          workingHoursStats \in {analyzeWorkingHours(filteredEvents)} :
       \E titleStats \in {calculateTitleStats(groupedByTitle)},
          allDayStats \in {calculateAllDayStats(groupedByTitle)} :
       LET Summary ==
               [key \in {summaryKeys[k] : k \in 1..Len(summaryKeys)} |->
                   CASE key = "Total events" -> Len(filteredEvents)
                     [] key = "Total duration" -> totalDuration
                     [] key = "Event titles" -> Cardinality(DOMAIN groupedByTitle)
                     [] key = "All-day events" -> Len(allDayStats)
                     [] key = "Meeting time" -> categoryStats.MeetingTime
                     [] key = "Focus time" -> categoryStats.FocusTime
                     [] key = "Learning time" -> categoryStats.LearningTime
                     [] key = "Admin time" -> categoryStats.AdminTime
                     [] key = "Total working hours" -> workingHoursStats.TotalWorkingHours
                     [] key = "Event categories" ->
                            Cardinality(DOMAIN categoryStats.Categories)]
           result == [AnalyzerName |-> "Calendar", StartDate |-> input.StartDate,
                      EndDate |-> input.EndDate, Summary |-> Summary]
       IN  /\ ret' = [kind              |-> "Analyze",
                      err               |-> "nil",
                      totalEvents       |-> Len(filteredEvents),
                      totalDuration     |-> totalDuration,
                      groupedByTitle    |-> groupedByTitle,
                      titleStats        |-> titleStats,
                      allDayStats       |-> allDayStats,
                      categoryStats     |-> categoryStats,
                      workingHoursStats |-> workingHoursStats,
                      Summary           |-> Summary]
           /\ writer' = writer \o printResults(result, filteredEvents, titleStats,
                                               allDayStats, categoryStats,
                                               workingHoursStats)
    /\ UNCHANGED <<input, idx, allEvents, filteredEvents>>
    /\ UNCHANGED parserVars
    /\ UNCHANGED mainVars

(***************************************************************************)
(* The statistics of Analyze on a filtered, sorted event list              *)
(***************************************************************************)
MaxEvents == 3

Jan(d, hh, mm) == Date(2024, 1, d, hh, mm, 0)

Ev(summary, start, end, allDay) ==
    [EmptyEvent EXCEPT !.Summary = summary, !.Start = start, !.End = end,
                       !.IsAllDay = allDay]

\* one hour; zero duration, same title after trimming; end before start;
\* marked all-day; unmarked 24h; unmarked 24h30m; empty title; absent end;
\* marked all-day over three days, with an absent end, with the end before
\* the start, over half a day; one hour under another title; 45 minutes
\* under a title of blanks
StatsEvents ==
    {Ev("Team Meeting", Jan(2, 9, 0), Jan(2, 10, 0), FALSE),
     Ev(" Team Meeting", Jan(2, 9, 0), Jan(2, 9, 0), FALSE),
     Ev("Team Meeting", Jan(2, 10, 0), Jan(2, 9, 30), FALSE),
     Ev("Holiday", Jan(3, 0, 0), Jan(4, 0, 0), TRUE),
     Ev("Focus block", Jan(2, 9, 0), Jan(3, 9, 0), FALSE),
     Ev("Focus block", Jan(2, 13, 0), Jan(3, 13, 30), FALSE),
     Ev("", Jan(2, 13, 0), Jan(2, 13, 30), FALSE),
     Ev("Training", Jan(3, 14, 0), ZeroTime, FALSE),
     Ev("Holiday", Jan(1, 0, 0), Jan(4, 0, 0), TRUE),
     Ev("Holiday ", Jan(2, 0, 0), ZeroTime, TRUE),
     Ev("Holiday", Jan(3, 0, 0), Jan(2, 0, 0), TRUE),
     Ev("Offsite", Jan(2, 0, 0), Jan(2, 12, 0), TRUE),
     Ev("Sync", Jan(2, 11, 0), Jan(2, 12, 0), FALSE),
     Ev("  ", Jan(2, 15, 0), Jan(2, 15, 45), FALSE)}

\* the sequences of at most n elements of S
SeqsUpTo(S, n) == UNION {[1..k -> S] : k \in 0..n}

\* what filterEventsByDateRange and the sort leave: every start present, in
\* the range, no event before an earlier-starting one
FilteredAndSorted(evs, startDate, endDate) ==
    /\ \A i \in 1..Len(evs) : InRange(evs[i], startDate, endDate)
    /\ \A i, j \in 1..Len(evs) : i < j => ~Before(evs[j].Start, evs[i].Start)

InitStats ==
    /\ pc = "stats"
    /\ input = [kind |-> "analyze", dirExists |-> TRUE, dir |-> <<>>,
                config |-> YamlConfig,
                StartDate |-> Jan(1, 0, 0), EndDate |-> Jan(3, 0, 0)]
    /\ ParserIdle
    /\ idx = 0
    /\ allEvents = <<>>
    /\ writer = <<>>
    /\ filteredEvents \in SeqsUpTo(StatsEvents, MaxEvents)
    /\ FilteredAndSorted(filteredEvents, input.StartDate, input.EndDate)
    /\ MainIdle
    /\ ret = NoRet

NextStats == Summarize

SpecStats == InitStats /\ [][NextStats]_vars

\* the events of a list that the all-day classifier does not classify all-day
RECURSIVE TimedOnlyFrom(_, _)
TimedOnlyFrom(evs, i) ==
    IF i > Len(evs) THEN <<>>
    ELSE (IF isAllDayEvent(evs[i]) THEN <<>> ELSE <<evs[i]>>) \o TimedOnlyFrom(evs, i + 1)

TimedOnly(evs) == TimedOnlyFrom(evs, 1)

Analyzed == pc = "ret" /\ ret.kind = "Analyze" /\ ret.err = "nil"

\* the timed duration that the per-title statistics give a title (0 when
\* the title has no group)
TitleDurationOf(stats, title) ==
    IF \E k \in 1..Len(stats) : stats[k].Title = title
    THEN (CHOOSE st \in {stats[k] : k \in 1..Len(stats)} : st.Title = title).Duration
    ELSE 0

(***************************************************************************)
(* C5: every event that isAllDayEvent classifies as all-day (by the        *)
(* parse-time flag or by the 24-hour heuristic) adds nothing to the timed  *)
(* computations of Analyze: Total duration, the per-title timed durations, *)
(* the category statistics and bucket totals, and the working-hours        *)
(* accumulators are what they are for the list without those events.       *)
(***************************************************************************)
C5_AllDayExcludedEverywhere ==
    Analyzed =>
        LET timed == TimedOnly(filteredEvents)
        IN  /\ ret.totalDuration = calculateDuration(timed)
            /\ \A k \in 1..Len(ret.titleStats) :
                  ret.titleStats[k].Duration =
                     TitleDurationOf(calculateTitleStats(groupEventsByTitle(timed)),
                                     ret.titleStats[k].Title)
            /\ ret.categoryStats = analyzeCategoryStats(input.config, timed)
            /\ ret.workingHoursStats = analyzeWorkingHours(timed)

\* the indices of the members of a title's group
Members(evs, title) == {i \in 1..Len(evs) : TrimSpace(evs[i].Summary) = title}

\* the sum of end - start over the events at a set of indices
RECURSIVE SumSpans(_, _)
SumSpans(evs, S) ==
    IF S = {} THEN 0
    ELSE LET i == CHOOSE i \in S : TRUE
         IN  Sub(evs[i].End, evs[i].Start) + SumSpans(evs, S \ {i})

(***************************************************************************)
(* C10: for every entry of calculateTitleStats, Duration is the sum of     *)
(* end - start over exactly the members of the group that are not all-day, *)
(* have start and end present and have end - start > 0; so Duration >= 0,  *)
(* and a group of only zero-duration, negative or all-day members has      *)
(* Duration 0 and still its member Count.                                  *)
(***************************************************************************)
C10_TitleDurationPositiveOnly ==
    Analyzed =>
        \A k \in 1..Len(ret.titleStats) :
            LET st      == ret.titleStats[k]
                members == Members(filteredEvents, st.Title)
                counted == {i \in members :
                              /\ ~isAllDayEvent(filteredEvents[i])
                              /\ ~IsZero(filteredEvents[i].Start)
                              /\ ~IsZero(filteredEvents[i].End)
                              /\ Sub(filteredEvents[i].End, filteredEvents[i].Start) > 0}
            IN  /\ st.Duration = SumSpans(filteredEvents, counted)
                /\ st.Duration >= 0
                /\ st.Count = Cardinality(members)
                /\ st.Count >= 1
                /\ counted = {} => st.Duration = 0

\* a group with a one-hour member, a zero-duration member and a member that
\* ends before it starts
C10_Witness ==
    /\ Analyzed
    /\ \E k \in 1..Len(ret.titleStats) :
          /\ ret.titleStats[k].Title = "Team Meeting"
          /\ ret.titleStats[k].Count = 3
          /\ ret.titleStats[k].Duration = HourSeconds
          /\ \E i \in Members(filteredEvents, "Team Meeting") :
                Sub(filteredEvents[i].End, filteredEvents[i].Start) < 0
          /\ \E i \in Members(filteredEvents, "Team Meeting") :
                Sub(filteredEvents[i].End, filteredEvents[i].Start) = 0

\* the members of a title's group that isAllDayEvent classifies all-day
AllDayMembers(evs, title) == {i \in Members(evs, title) : isAllDayEvent(evs[i])}

\* the entries of a statistics list that carry a title
EntriesOf(stats, title) == {k \in 1..Len(stats) : stats[k].Title = title}

\* floor((end - start) in hours / 24)
DayQuotient(event) == Sub(event.End, event.Start) \div (24 * HourSeconds)

\* the days of the members at a set of indices, one day standing for an
\* absent time or for a quotient in the set unit
RECURSIVE SumDays(_, _, _)
SumDays(evs, S, unit) ==
    IF S = {} THEN 0
    ELSE LET i == CHOOSE i \in S : TRUE
             e == evs[i]
         IN  (IF IsZero(e.Start) \/ IsZero(e.End) \/ DayQuotient(e) \in unit
              THEN 1 ELSE DayQuotient(e)) + SumDays(evs, S \ {i}, unit)

\* the statement of C11 with one day standing for the quotients in unit
AllDayStatsAre(unit) ==
    Analyzed =>
        /\ \A title \in DOMAIN ret.groupedByTitle :
              Cardinality(EntriesOf(ret.allDayStats, title)) =
                 IF AllDayMembers(filteredEvents, title) # {} THEN 1 ELSE 0
        /\ \A k \in 1..Len(ret.allDayStats) :
              LET st     == ret.allDayStats[k]
                  allDay == AllDayMembers(filteredEvents, st.Title)
              IN  /\ st.Title \in DOMAIN ret.groupedByTitle
                  /\ st.Count = Cardinality(allDay)
                  /\ st.Duration = SumDays(filteredEvents, allDay, unit) * 24 * HourSeconds
                  /\ st.Duration >= st.Count * 24 * HourSeconds
                  /\ st.Count >= 1

(***************************************************************************)
(* C11 as stated: calculateAllDayStats has an entry for a title if and     *)
(* only if its group has a member classified all-day; Count is the number  *)
(* of such members and the total days are the sum over them of             *)
(* floor((end - start) in hours / 24), one day being used instead when     *)
(* start or end is absent or that quotient is 0; so total days >= Count    *)
(* >= 1.                                                                   *)
(***************************************************************************)
C11_OneDayWhenQuotientZero == AllDayStatsAre({0})

(***************************************************************************)
(* C11 amended: as above, one day being used instead when start or end is  *)
(* absent or the quotient is not positive: a member marked all-day whose   *)
(* end is before its start counts one day, and so total days >= Count      *)
(* >= 1.                                                                   *)
(***************************************************************************)
C11_OneDayWhenQuotientNotPositive == AllDayStatsAre({q \in Int : q <= 0})

\* the Holiday entry of a group with a three-day member, a member without
\* end and a member that ends a day before it starts: 3 + 1 + 1 days; a
\* group without all-day member could not fit beside them
C11_Witness ==
    /\ Analyzed
    /\ \E k \in 1..Len(ret.allDayStats) :
          /\ ret.allDayStats[k].Title = "Holiday"
          /\ ret.allDayStats[k].Count = 3
          /\ ret.allDayStats[k].Duration = 5 * 24 * HourSeconds
    /\ \E i \in 1..Len(filteredEvents) :
          /\ filteredEvents[i].IsAllDay
          /\ Before(filteredEvents[i].End, filteredEvents[i].Start)
          /\ ~IsZero(filteredEvents[i].End)
    /\ \E i \in 1..Len(filteredEvents) :
          filteredEvents[i].IsAllDay /\ IsZero(filteredEvents[i].End)

\* an event list with every absent end of an event with a start replaced
\* by the start: the same events, of zero duration
ZeroDurationFor(evs) ==
    [i \in 1..Len(evs) |->
        IF ~IsZero(evs[i].Start) /\ IsZero(evs[i].End)
        THEN [evs[i] EXCEPT !.End = evs[i].Start] ELSE evs[i]]

\* the Count and Duration of each category
CategoryTotals(stats) ==
    [c \in DOMAIN stats.Categories |->
        [Count |-> stats.Categories[c].Count, Duration |-> stats.Categories[c].Duration]]

(***************************************************************************)
(* C16: an event with a present start and an absent end is treated as      *)
(* zero-duration by every aggregation: Total duration, the timed duration  *)
(* of its title, the Duration of its category and the time-bucket totals   *)
(* of analyzeCategoryStats, and the hour, weekday and total accumulators   *)
(* of analyzeWorkingHours are what they are when its end is its start.     *)
(***************************************************************************)
C16_AbsentEndAddsZero ==
    Analyzed =>
        LET zeroed   == ZeroDurationFor(filteredEvents)
            category == analyzeCategoryStats(input.config, zeroed)
            working  == analyzeWorkingHours(zeroed)
        IN  /\ ret.totalDuration = calculateDuration(zeroed)
            /\ \A k \in 1..Len(ret.titleStats) :
                  ret.titleStats[k].Duration =
                     TitleDurationOf(calculateTitleStats(groupEventsByTitle(zeroed)),
                                     ret.titleStats[k].Title)
            /\ CategoryTotals(ret.categoryStats) = CategoryTotals(category)
            /\ ret.categoryStats.MeetingTime = category.MeetingTime
            /\ ret.categoryStats.FocusTime = category.FocusTime
            /\ ret.categoryStats.LearningTime = category.LearningTime
            /\ ret.categoryStats.AdminTime = category.AdminTime
            /\ ret.workingHoursStats.HourlyDistribution = working.HourlyDistribution
            /\ ret.workingHoursStats.DailyDistribution = working.DailyDistribution
            /\ ret.workingHoursStats.TotalWorkingHours = working.TotalWorkingHours

\* the rows of one ranking among the lines written, in the order written
Rows(kind) == SelectSeq(writer, LAMBDA l : l.text = kind)

RowTitles(rows) == [i \in 1..Len(rows) |-> rows[i].Title]

\* the entries of stats that a ranking by key puts before the entry of title
Ahead(stats, title, key) ==
    {k \in 1..Len(stats) :
        \E m \in EntriesOf(stats, title) :
            \/ stats[k][key] > stats[m][key]
            \/ stats[k][key] = stats[m][key] /\ StrLess(stats[k].Title, title)}

\* rows holds one row for each entry of stats at the indices shown, with
\* its Count, numbered by its place in the ranking of all of stats by key
\* descending then title ascending, and written in that order
Ranked(rows, stats, shown, key) ==
    /\ Len(rows) = Cardinality(shown)
    /\ \A k \in shown : \E i \in 1..Len(rows) : rows[i].Title = stats[k].Title
    /\ \A i \in 1..Len(rows) :
          /\ \E k \in shown : /\ stats[k].Title = rows[i].Title
                               /\ stats[k].Count = rows[i].Count
          /\ rows[i].rank = Cardinality(Ahead(stats, rows[i].Title, key)) + 1
    /\ \A i, j \in 1..Len(rows) : i < j => rows[i].rank < rows[j].rank

(***************************************************************************)
(* C13: each ranking that printResults writes over the per-title stats (by *)
(* count, by timed duration, by all-day total days) is ordered by its key  *)
(* descending with ties broken by title ascending: every row stands at the *)
(* place that the set of stats alone gives it (one more than the number of *)
(* entries with a larger key, or the same key and a smaller title),        *)
(* whatever the order of the input events; the ranking by duration shows   *)
(* the entries of at least a minute.                                       *)
(***************************************************************************)
C13_RankingsOrdered ==
    Analyzed =>
        /\ Ranked(Rows("by count"), ret.titleStats, DOMAIN ret.titleStats, "Count")
        /\ Ranked(Rows("by duration"), ret.titleStats,
                  {k \in DOMAIN ret.titleStats : ret.titleStats[k].Duration >= 60},
                  "Duration")
        /\ Ranked(Rows("by days"), ret.allDayStats, DOMAIN ret.allDayStats, "Duration")

\* two titles with one hour each, the larger title with two events: it is
\* first by count and second by duration
C13_Witness ==
    /\ Analyzed
    /\ RowTitles(Rows("by count")) = <<"Team Meeting", "Sync">>
    /\ RowTitles(Rows("by duration")) = <<"Sync", "Team Meeting">>
    /\ \A k \in 1..Len(ret.titleStats) : ret.titleStats[k].Duration = HourSeconds

(***************************************************************************)
(* The working hours of Analyze on a filtered, sorted event list           *)
(***************************************************************************)
MaxHourEvents == 4

\* one hour at 09:00, at 10:00 and, a day later, at 08:00; two hours at
\* 13:00; half an hour at 14:00 and at 09:00 a day later; no end at 16:00
HourEvents ==
    {Ev("Review", Jan(2, 9, 0), Jan(2, 10, 0), FALSE),
     Ev("Review", Jan(2, 10, 0), Jan(2, 11, 0), FALSE),
     Ev("Review", Jan(3, 8, 0), Jan(3, 9, 0), FALSE),
     Ev("Design", Jan(2, 13, 0), Jan(2, 15, 0), FALSE),
     Ev("Design", Jan(2, 14, 0), Jan(2, 14, 30), FALSE),
     Ev("Design", Jan(3, 9, 0), Jan(3, 9, 30), FALSE),
     Ev("Call", Jan(2, 16, 0), ZeroTime, FALSE)}

InitHours ==
    /\ pc = "stats"
    /\ input = [kind |-> "analyze", dirExists |-> TRUE, dir |-> <<>>,
                config |-> YamlConfig,
                StartDate |-> Jan(1, 0, 0), EndDate |-> Jan(3, 0, 0)]
    /\ ParserIdle
    /\ idx = 0
    /\ allEvents = <<>>
    /\ writer = <<>>
    /\ filteredEvents \in SeqsUpTo(HourEvents, MaxHourEvents)
    /\ FilteredAndSorted(filteredEvents, input.StartDate, input.EndDate)
    /\ MainIdle
    /\ ret = NoRet

NextHours == Summarize

SpecHours == InitHours /\ [][NextHours]_vars

\* the hours of a PeakHours list
Listed(peak) == {peak[i] : i \in 1..Len(peak)}

(***************************************************************************)
(* C12: PeakHours of analyzeWorkingHours holds the first min(3, number of  *)
(* hour buckets) hours of the ordering by accumulated duration descending, *)
(* ties broken by hour ascending: its hours are distinct hour buckets, of  *)
(* two listed hours the earlier listed has the larger accumulated duration *)
(* or the same duration and the lower hour, and every hour left out has an *)
(* accumulated duration not larger than that of any listed hour and, when  *)
(* equal to it, a higher hour.                                             *)
(***************************************************************************)
C12_PeakHoursOrdered ==
    Analyzed =>
        LET dist == ret.workingHoursStats.HourlyDistribution
            peak == ret.workingHoursStats.PeakHours
        IN  /\ Len(peak) = Min(3, Cardinality(DOMAIN dist))
            /\ Listed(peak) \subseteq DOMAIN dist
            /\ \A i, j \in 1..Len(peak) :
                  i < j => /\ peak[i] # peak[j]
                           /\ dist[peak[i]] >= dist[peak[j]]
                           /\ dist[peak[i]] = dist[peak[j]] => peak[i] < peak[j]
            /\ \A g \in DOMAIN dist \ Listed(peak) :
                  \A i \in 1..Len(peak) :
                      /\ dist[g] <= dist[peak[i]]
                      /\ dist[g] = dist[peak[i]] => peak[i] < g

\* four hour buckets, three of them with one hour each: 13:00 is listed
\* first, then 08:00 and 09:00, and 10:00 is left out
C12_Witness ==
    /\ Analyzed
    /\ Cardinality(DOMAIN ret.workingHoursStats.HourlyDistribution) = 4
    /\ ret.workingHoursStats.PeakHours = <<13, 8, 9>>
    /\ ret.workingHoursStats.HourlyDistribution[10] =
          ret.workingHoursStats.HourlyDistribution[9]
    /\ ret.workingHoursStats.HourlyDistribution[8] =
          ret.workingHoursStats.HourlyDistribution[9]

(***************************************************************************)
(* The range filter of Analyze on a parsed event list                      *)
(***************************************************************************)
MaxFilterEvents == 2

\* starts around the bounds of the ranges below, and the absent start
FilterStarts ==
    {ZeroTime,
     Date(2023, 12, 31, 23, 59, 59),
     Date(2024, 1, 1, 0, 0, 0),
     Date(2024, 1, 1, 23, 59, 0),
     Date(2024, 1, 2, 0, 0, 0),
     Date(2024, 1, 3, 23, 59, 59),
     Date(2024, 1, 4, 0, 0, 0),
     Date(2024, 1, 4, 0, 0, 1)}

FilterEvents == {Ev("Team Meeting", st, ZeroTime, FALSE) : st \in FilterStarts}

\* START_DATE and END_DATE as LoadConfig parses them: midnight UTC
FilterRanges ==
    {<<Jan(1, 0, 0), Jan(1, 0, 0)>>, <<Jan(1, 0, 0), Jan(3, 0, 0)>>,
     <<Jan(2, 0, 0), Jan(3, 0, 0)>>, <<Jan(3, 0, 0), Jan(1, 0, 0)>>}

InitFilter ==
    /\ pc = "filter"
    /\ \E range \in FilterRanges :
          input = [kind |-> "analyze", dirExists |-> TRUE, dir |-> <<>>,
                   config |-> YamlConfig,
                   StartDate |-> range[1], EndDate |-> range[2]]
    /\ ParserIdle
    /\ idx = 0
    /\ allEvents \in SeqsUpTo(FilterEvents, MaxFilterEvents)
    /\ writer = <<>>
    /\ filteredEvents = <<>>
    /\ MainIdle
    /\ ret = NoRet

NextFilter == FilterAndSort

SpecFilter == InitFilter /\ [][NextFilter]_vars

Filtered == pc = "stats"

Retained(event) == \E k \in 1..Len(filteredEvents) : filteredEvents[k] = event

\* the first instant after the last day of the range
RangeEnd == AddDays(input.EndDate, 1)

(***************************************************************************)
(* C6: filterEventsByDateRange keeps an event that starts exactly at       *)
(* start_date 00:00:00 (when that is before end_date + 1 day), drops       *)
(* every event that starts before start_date, and drops every event whose  *)
(* start is absent.                                                        *)
(***************************************************************************)
C6_LowerBoundInclusive ==
    Filtered =>
        \A i \in 1..Len(allEvents) :
            LET event == allEvents[i]
            IN  /\ (event.Start = input.StartDate /\ Before(input.StartDate, RangeEnd))
                        => Retained(event)
                /\ Before(event.Start, input.StartDate) => ~Retained(event)
                /\ IsZero(event.Start) => ~Retained(event)

\* an event starting at start_date 00:00:00 was kept and an event with an
\* absent start was dropped
C6_Witness ==
    /\ Filtered
    /\ \E i, j \in 1..Len(allEvents) :
          /\ allEvents[i].Start = input.StartDate
          /\ Retained(allEvents[i])
          /\ IsZero(allEvents[j].Start)
          /\ ~Retained(allEvents[j])

(***************************************************************************)
(* C7: the upper bound of filterEventsByDateRange is inclusive of end_date *)
(* at day granularity: an event that starts at any time of day on end_date *)
(* and not before start_date is kept, and every event that starts at or    *)
(* after end_date + 1 day 00:00 is dropped.                                *)
(***************************************************************************)
C7_UpperBoundInclusiveDay ==
    Filtered =>
        \A i \in 1..Len(allEvents) :
            LET event == allEvents[i]
            IN  /\ (event.Start.day = input.EndDate.day
                      /\ ~Before(event.Start, input.StartDate)) => Retained(event)
                /\ ~Before(event.Start, RangeEnd) => ~Retained(event)

\* an event starting in the last minute of end_date was kept and one
\* starting at end_date + 1 day 00:00 was dropped
C7_Witness ==
    /\ Filtered
    /\ \E i, j \in 1..Len(allEvents) :
          /\ allEvents[i].Start.day = input.EndDate.day
          /\ allEvents[i].Start.sec >= 23 * HourSeconds + 59 * 60
          /\ Retained(allEvents[i])
          /\ allEvents[j].Start = RangeEnd
          /\ ~Retained(allEvents[j])

(***************************************************************************)
(* Analyze on a calendar directory                                         *)
(***************************************************************************)
MaxFiles == 3

TimedLines ==
    <<"BEGIN:VCALENDAR", "BEGIN:VEVENT", "UID:u1", "SUMMARY:Daily Standup",
      "DTSTART:20240102T090000Z", "DTEND:20240102T100000Z", "END:VEVENT",
      "END:VCALENDAR">>

AllDayLines ==
    <<"BEGIN:VEVENT", "UID:u2", "SUMMARY:Holiday", "DTSTART;VALUE=DATE:20240103",
      "DTEND;VALUE=DATE:20240104", "END:VEVENT", "BEGIN:VEVENT", "UID:u3",
      "SUMMARY:Old Meeting", "DTSTART:20231231T235959", "END:VEVENT">>

Path(name, isDir, walkErr, lines, fault, faultAt) ==
    [name |-> name, isDir |-> isDir, walkErr |-> walkErr, lines |-> lines,
     fault |-> fault, faultAt |-> faultAt]

\* the root: Walk calls the callback on calendarDir first
RootPath == Path("calendar", TRUE, FALSE, <<>>, "none", 0)

\* a file with one timed event; a file with an all-day event and an event
\* out of range, its extension in upper case; a file that cannot be opened;
\* a file whose scan fails after its first block is complete; a file with
\* another extension; a directory; a directory named like a calendar file
\* (its scan fails at once); a path that Walk reports an error for
WalkPaths ==
    {Path("a.ics", FALSE, FALSE, TimedLines, "none", 0),
     Path("B.ICS", FALSE, FALSE, AllDayLines, "none", 0),
     Path("locked.ics", FALSE, FALSE, TimedLines, "open", 0),
     Path("long.ics", FALSE, FALSE, AllDayLines, "scan", 7),
     Path("notes.txt", FALSE, FALSE, TimedLines, "none", 0),
     Path("sub", TRUE, FALSE, <<>>, "none", 0),
     Path("old.ics", TRUE, FALSE, <<>>, "scan", 0),
     Path("private", TRUE, TRUE, <<>>, "none", 0)}

InitAnalyze ==
    /\ pc = "validate"
    /\ \E exists \in BOOLEAN, paths \in SeqsUpTo(WalkPaths, MaxFiles) :
          /\ ~exists => paths = <<>>
          /\ input = [kind |-> "analyze", dirExists |-> exists,
                      dir |-> IF exists THEN <<RootPath>> \o paths ELSE <<>>,
                      config |-> YamlConfig,
                      StartDate |-> Jan(1, 0, 0), EndDate |-> Jan(3, 0, 0)]
    /\ ParserIdle
    /\ AnalyzeIdle
    /\ MainIdle
    /\ ret = NoRet

NextAnalyze == ValidateConfig \/ WalkVisit \/ WalkDone \/ FilterAndSort \/ Summarize

SpecAnalyze == InitAnalyze /\ [][NextAnalyze]_vars

\* the paths visited so far that the callback handed to parseICSFile
RECURSIVE ParsedPaths(_, _)
ParsedPaths(dir, n) ==
    IF n = 0 THEN <<>>
    ELSE ParsedPaths(dir, n - 1) \o
         (IF ~dir[n].walkErr /\ IsCalendarName(dir[n].name) THEN <<dir[n]>> ELSE <<>>)

\* the events of the files among them that were opened and scanned to the
\* end, file after file
RECURSIVE EventsOfGoodFiles(_, _)
EventsOfGoodFiles(files, n) ==
    IF n = 0 THEN <<>>
    ELSE EventsOfGoodFiles(files, n - 1) \o
         (IF files[n].fault = "none" THEN parseICSFile(files[n]).events ELSE <<>>)

Reported(entry) ==
    \E k \in 1..Len(writer) :
        writer[k] = [text |-> "Error parsing ICS file", path |-> entry.name]

(***************************************************************************)
(* C8: in readAllICSFiles a calendar file that cannot be opened or whose   *)
(* scan fails is reported to the writer and contributes no event (not even *)
(* those of blocks completed before the failure), the walk goes on to the  *)
(* next path, and the list is the concatenation, in visit order then file  *)
(* order, of the events of the files parsed without error, duplicates of a *)
(* UID kept.                                                               *)
(***************************************************************************)
C8_BadFileSkippedWhole ==
    (pc = "walk" \/ pc = "filter") =>
        LET files == ParsedPaths(input.dir, idx)
        IN  /\ allEvents = EventsOfGoodFiles(files, Len(files))
            /\ \A k \in 1..Len(files) : files[k].fault # "none" => Reported(files[k])

\* the walk ended after a file whose scan failed behind a completed block,
\* a file parsed twice (the same UID twice) and nothing of the failed file
C8_Witness ==
    /\ pc = "filter"
    /\ \E i, j, k \in 1..Len(input.dir) :
          /\ i < j /\ j < k
          /\ input.dir[i].name = "long.ics"
          /\ Len(parseICSFile(input.dir[i]).events) = 1
          /\ input.dir[j].name = "a.ics" /\ input.dir[k].name = "a.ics"
    /\ Len(allEvents) = 2
    /\ allEvents[1].UID = "u1" /\ allEvents[2].UID = "u1"

(***************************************************************************)
(* C9 as stated: Analyze returns an error only for the configuration       *)
(* precondition; no error met during the directory walk, that of a path    *)
(* the walk cannot stat or list included, makes it return an error.        *)
(***************************************************************************)
C9_OnlyConfigError ==
    (pc = "ret" /\ ret.kind = "Analyze" /\ ret.err # "nil") => ~input.dirExists

(***************************************************************************)
(* C9 amended: Analyze returns an error exactly when the calendar          *)
(* directory does not exist or filepath.Walk reports an error for a path   *)
(* (the path cannot be stat'ed or listed); a calendar file that cannot be  *)
(* opened or scanned never makes it return an error.                       *)
(***************************************************************************)
C9_ConfigOrWalkError ==
    (pc = "ret" /\ ret.kind = "Analyze") =>
        /\ ret.err # "nil" <=>
              (~input.dirExists \/ \E k \in 1..Len(input.dir) : input.dir[k].walkErr)
        /\ ret.err = "config" <=> ~input.dirExists

\* Analyze returned a result although one file could not be opened and the
\* scan of another failed
C9_Witness ==
    /\ Analyzed
    /\ \E i, j \in 1..Len(input.dir) :
          /\ IsCalendarName(input.dir[i].name) /\ input.dir[i].fault = "open"
          /\ IsCalendarName(input.dir[j].name) /\ input.dir[j].fault = "scan"
    /\ ret.totalEvents >= 1

(***************************************************************************)
(* The datetime decoder on one token                                       *)
(***************************************************************************)
\* a date, a day that does not exist, seven digits, a month that does not
\* exist, a dashed date, nothing
TokenDates == {"20240102", "20240230", "2024010", "20241301", "2024-01-", ""}

\* nothing; a clock; a clock and Z; an hour that does not exist; a clock
\* without seconds; fractions of a second; an offset; a space for the T;
\* a second that does not exist; Z alone; lower case
TokenClocks ==
    {"", "T090000", "T090000Z", "T240000Z", "T0900Z", "T090000.5Z", "T090000.25",
     "T090000+0900", " 090000Z", "T090061", "Z", "t090000z"}

Tokens == {d \o c : d \in TokenDates, c \in TokenClocks}

InitDecode ==
    /\ pc = "call"
    /\ \E token \in Tokens : input = [kind |-> "decode", token |-> token]
    /\ ParserIdle
    /\ AnalyzeIdle
    /\ MainIdle
    /\ ret = NoRet

CallParseDateTime ==
    /\ pc = "call"
    /\ input.kind = "decode"
    /\ Return("parseDateTime", parseDateTime(input.token))

NextDecode == CallParseDateTime

SpecDecode == InitDecode /\ [][NextDecode]_vars

\* the one rule that the shape of a token selects
Shape(token) ==
    IF token = "" THEN "empty"
    ELSE IF Len(token) >= 15 /\ CharAt(token, Len(token)) = "Z" THEN "utc"
    ELSE IF Len(token) >= 15 /\ \E i \in 1..Len(token) : CharAt(token, i) = "T"
    THEN "naive"
    ELSE IF Len(token) = 8 THEN "date"
    ELSE "other"

(***************************************************************************)
(* C14: parseDateTime dispatches on the shape of the token in a fixed      *)
(* order: the empty token fails; a token of length >= 15 with a trailing Z *)
(* is decoded with the pattern YYYYMMDD'T'HHMMSS'Z'; otherwise a token of  *)
(* length >= 15 that contains T is decoded with the pattern                *)
(* YYYYMMDD'T'HHMMSS, no offset applied; otherwise a token of length 8 is  *)
(* decoded as a date at midnight; every other token fails.  The result is  *)
(* that of the one rule the shape selects: a token that does not fit its   *)
(* pattern fails, whatever a later rule would make of it.                  *)
(***************************************************************************)
C14_OneRuleByShape ==
    Classified("parseDateTime") =>
        LET token == input.token
            shape == Shape(token)
        IN  /\ shape \in {"empty", "other"} => ret.value = ParseFail
            /\ shape = "utc" => ret.value = ParseStamp(token, "Z")
            /\ shape = "naive" => ret.value = ParseStamp(token, "")
            /\ shape = "date" => ret.value = ParseDate(token)
            /\ ~ret.value.ok => ret.value.t = ZeroTime
            /\ token = "20240102T090000Z" =>
                  ret.value = [ok |-> TRUE, t |-> Date(2024, 1, 2, 9, 0, 0)]
            /\ token = "20240102T090000" =>
                  ret.value = [ok |-> TRUE, t |-> Date(2024, 1, 2, 9, 0, 0)]
            /\ token = "20240102" =>
                  ret.value = [ok |-> TRUE, t |-> Date(2024, 1, 2, 0, 0, 0)]
            /\ token \in {"20240102 090000Z", "20240102T0900Z", "2024010T090000",
                           "20240102T090000+0900", "20240102Z"} => ~ret.value.ok

\* a token with a T and a trailing Z, which the first of the two rules it
\* has the shape of decoded
C14_Witness ==
    /\ Classified("parseDateTime")
    /\ Len(input.token) >= 15
    /\ HasSuffix(input.token, "Z") /\ Contains(input.token, "T")
    /\ ret.value.ok
    /\ ret.value.t = Date(2024, 1, 2, 9, 0, 0)

(***************************************************************************)
(* The all-day classifier on one event                                     *)
(***************************************************************************)
\* t plus a Duration of d seconds
TimePlus(t, d) ==
    [day  |-> t.day + ((t.sec + d) \div SecondsPerDay),
     sec  |-> (t.sec + d) % SecondsPerDay,
     nsec |-> t.nsec]

\* end - start of the events the classifier is tried on, in seconds:
\* -1h, 0, 1s, 1h, 24h-1s, 24h, 24h+1s, 24h30m, 25h, 47h, 48h,
\* 48h59m59s, 72h
ClassifierSpans ==
    {-3600, 0, 1, 3600, 86399, 86400, 86401, 88200, 90000, 169200, 172800,
     176399, 259200}

ClassifierStarts == {Date(2024, 1, 2, 9, 0, 0), Date(2024, 2, 28, 23, 30, 15)}

ClassifierEvents ==
    LET times ==
            {<<st, TimePlus(st, d)>> : st \in ClassifierStarts, d \in ClassifierSpans}
              \cup {<<st, ZeroTime>> : st \in ClassifierStarts}
              \cup {<<ZeroTime, en>> : en \in ClassifierStarts}
              \cup {<<ZeroTime, ZeroTime>>}
    IN  {[EmptyEvent EXCEPT !.Start = p[1], !.End = p[2], !.IsAllDay = flag] :
            p \in times, flag \in BOOLEAN}

InitEvent ==
    /\ pc = "call"
    /\ \E event \in ClassifierEvents : input = [kind |-> "event", event |-> event]
    /\ ParserIdle
    /\ AnalyzeIdle
    /\ MainIdle
    /\ ret = NoRet

CallIsAllDayEvent ==
    /\ pc = "call"
    /\ input.kind = "event"
    /\ Return("isAllDayEvent", isAllDayEvent(input.event))

\* a second classification of the same event
CallIsAllDayEventAgain ==
    /\ pc = "ret"
    /\ ret.kind = "isAllDayEvent"
    /\ Return("isAllDayEvent again", isAllDayEvent(input.event))

NextEvent == CallIsAllDayEvent \/ CallIsAllDayEventAgain

SpecEvent == InitEvent /\ [][NextEvent]_vars

(***************************************************************************)
(* C4: for an event not marked all-day at parse time, isAllDayEvent is     *)
(* true if and only if start and end are both present and end - start is   *)
(* an exact positive multiple of 24 hours, to the second (so 24h30m gives  *)
(* false).                                                                 *)
(***************************************************************************)
C4_ExactMultipleOf24h ==
    (Classified("isAllDayEvent") /\ ~input.event.IsAllDay) =>
        (ret.value <=>
            /\ ~IsZero(input.event.Start) /\ ~IsZero(input.event.End)
            /\ Sub(input.event.End, input.event.Start) > 0
            /\ Sub(input.event.End, input.event.Start) % (24 * HourSeconds) = 0)

(***************************************************************************)
(* main of cmd/dev-stats: the analyzers it constructs, the analyzers the   *)
(* -analyzer flag selects and the calls of Analyze it makes.  The          *)
(* environment of a run is its flags, whether the common configuration     *)
(* loads, the state of config/categorization.yaml and the Backlog profiles *)
(* (for each, whether it is ready for analysis).                           *)
(***************************************************************************)
\* strings.Split(s, ",") from position i, the current piece starting at start
RECURSIVE SplitFrom(_, _, _)
SplitFrom(s, i, start) ==
    IF i > Len(s) THEN <<SubSeq(s, start, Len(s))>>
    ELSE IF CharAt(s, i) = ","
    THEN <<SubSeq(s, start, i - 1)>> \o SplitFrom(s, i + 1, i + 1)
    ELSE SplitFrom(s, i + 1, start)

\* the names main takes from the -analyzer flag
requestedAnalyzers(analyzerFlag) ==
    IF analyzerFlag = "all" THEN <<"github", "backlog", "calendar", "notion">>
    ELSE LET parts == SplitFrom(analyzerFlag, 1, 1)
         IN  [k \in 1..Len(parts) |-> TrimSpace(parts[k])]

\* config.LoadCategorizationConfig(""): the file is missing, cannot be read
\* or is no YAML of the rule set, or it holds the rules
LoadCategorizationConfig(configFile) ==
    IF configFile = "missing" THEN [config |-> << >>, err |-> "not found"]
    ELSE IF configFile = "unreadable" THEN [config |-> << >>, err |-> "failed to read"]
    ELSE IF configFile = "malformed" THEN [config |-> << >>, err |-> "failed to parse"]
    ELSE [config |-> YamlConfig, err |-> "nil"]

\* a nil analyzer
Nil == [nil |-> TRUE]

\* a calendar analyzer with the rules of the repository built in
NewCalendarAnalyzerWithDefaults(configFile) ==
    LET loaded == LoadCategorizationConfig(configFile)
    IN  [name |-> "Calendar", calendarDir |-> "storage/calendar",
         categoryConfig |-> IF loaded.err # "nil" THEN YamlConfig ELSE loaded.config]

NewCalendarAnalyzer(configFile) ==
    LET loaded == LoadCategorizationConfig(configFile)
    IN  IF loaded.err # "nil" THEN Nil
        ELSE [name |-> "Calendar", calendarDir |-> "storage/calendar",
              categoryConfig |-> loaded.config]

NewNotionAnalyzer(configFile) ==
    LET loaded == LoadCategorizationConfig(configFile)
    IN  IF loaded.err # "nil" THEN Nil
        ELSE [name |-> "Notion", categoryConfig |-> loaded.config]

NewGitHubAnalyzer == [name |-> "GitHub"]

AnalyzerFlags ==
    {"", "calendar", "all", "github", "github, calendar", "calendar,backlog",
     "backlog", "notion", "bogus"}

ConfigFiles == {"ok", "missing", "unreadable", "malformed"}

InitMain ==
    /\ pc = "flags"
    /\ \E mode \in {"analyze", "help"}, analyzerFlag \in AnalyzerFlags,
          commonConfig \in BOOLEAN, configFile \in ConfigFiles,
          profiles \in {<<>>, <<TRUE>>, <<FALSE, TRUE>>} :
          input = [kind |-> "main", mode |-> mode, analyzerFlag |-> analyzerFlag,
                   commonConfig |-> commonConfig, configFile |-> configFile,
                   backlogProfiles |-> profiles]
    /\ ParserIdle
    /\ AnalyzeIdle
    /\ MainIdle
    /\ ret = NoRet

\* the process ends with an exit status
Exit(status, reason) ==
    /\ pc' = "ret"
    /\ ret' = [kind |-> "main", exit |-> status, reason |-> reason]

\* the flags and common.LoadConfig; mode help stands for the flags that
\* make main return before any analysis (help, list, the Backlog listings,
\* download)
MainFlags ==
    /\ pc = "flags"
    /\ IF input.mode # "analyze" THEN Exit(0, input.mode)
       ELSE IF input.analyzerFlag = "" THEN Exit(1, "-analyzer flag is required")
       ELSE IF ~input.commonConfig THEN Exit(1, "Failed to load configuration")
       ELSE pc' = "create" /\ ret' = ret
    /\ UNCHANGED <<input, analyzers, analyzersToRun, runs, results>>
    /\ UNCHANGED parserVars
    /\ UNCHANGED analyzeVars

\* the map analyzers: a constructor's result is registered unless it is nil
MainCreate ==
    /\ pc = "create"
    /\ pc' = "select"
    /\ LET built == [n \in {"github", "calendar", "notion"} |->
                        CASE n = "github" -> NewGitHubAnalyzer
                          [] n = "calendar" -> NewCalendarAnalyzer(input.configFile)
                          [] n = "notion" -> NewNotionAnalyzer(input.configFile)]
       IN  analyzers' = [n \in {m \in DOMAIN built : built[m] # Nil} |-> built[n]]
    /\ UNCHANGED <<input, analyzersToRun, runs, results, ret>>
    /\ UNCHANGED parserVars
    /\ UNCHANGED analyzeVars

\* analyzersToRun after the first n requested names, and the name that made
\* log.Fatalf end the loop ("" when none did)
RECURSIVE selectFrom(_, _, _)
selectFrom(registered, requested, n) ==
    IF n = 0 THEN [analyzersToRun |-> <<>>, unknown |-> ""]
    ELSE LET sel  == selectFrom(registered, requested, n - 1)
             name == requested[n]
         IN  IF sel.unknown # "" \/ name = "backlog" THEN sel
             ELSE IF name \in DOMAIN registered
             THEN [sel EXCEPT !.analyzersToRun = Append(@, name)]
             ELSE [sel EXCEPT !.unknown = "Unknown analyzer: " \o name]

backlogRequested(requested) == \E k \in 1..Len(requested) : requested[k] = "backlog"

\* the loop over the requested names and the checks after it
MainSelect ==
    /\ pc = "select"
    /\ LET requested == requestedAnalyzers(input.analyzerFlag)
           sel       == selectFrom(analyzers, requested, Len(requested))
       IN  /\ analyzersToRun' = sel.analyzersToRun
           /\ IF sel.unknown # "" THEN Exit(1, sel.unknown)
              ELSE IF Len(sel.analyzersToRun) = 0 /\ ~backlogRequested(requested)
              THEN Exit(1, "No valid analyzers specified")
              ELSE pc' = "backlog" /\ ret' = ret
    /\ UNCHANGED <<input, analyzers, runs, results>>
    /\ UNCHANGED parserVars
    /\ UNCHANGED analyzeVars

\* what becomes of one iteration: the output file cannot be created, or
\* Analyze is called and returns an error or a result
Outcomes == {"create failed", "error", "result"}

\* the iterations of the loop over the Backlog profiles
RECURSIVE backlogRuns(_, _, _)
backlogRuns(profiles, outcomes, n) ==
    IF n = 0 THEN <<>>
    ELSE backlogRuns(profiles, outcomes, n - 1) \o
         (IF profiles[n]
          THEN <<[loop |-> "backlog", name |-> "backlog", outcome |-> outcomes[n]]>>
          ELSE <<>>)

\* the results appended by a sequence of iterations
RECURSIVE resultsOf(_, _)
resultsOf(rs, n) ==
    IF n = 0 THEN <<>>
    ELSE resultsOf(rs, n - 1) \o
         (IF rs[n].outcome = "result" THEN <<rs[n].name>> ELSE <<>>)

\* the Backlog analyzers of the profiles that are ready, when backlog was
\* requested
MainBacklog ==
    /\ pc = "backlog"
    /\ pc' = "run"
    /\ IF backlogRequested(requestedAnalyzers(input.analyzerFlag))
       THEN \E outcomes \in [1..Len(input.backlogProfiles) -> Outcomes] :
               LET rs == backlogRuns(input.backlogProfiles, outcomes,
                                     Len(input.backlogProfiles))
               IN  /\ runs' = runs \o rs
                   /\ results' = results \o resultsOf(rs, Len(rs))
       ELSE UNCHANGED <<runs, results>>
    /\ UNCHANGED <<input, analyzers, analyzersToRun, ret>>
    /\ UNCHANGED parserVars
    /\ UNCHANGED analyzeVars

\* the iterations of the loop over analyzersToRun made so far
Visited == Cardinality({k \in 1..Len(runs) : runs[k].loop = "main"})

\* one iteration of the loop over analyzersToRun
MainRunNext ==
    /\ pc = "run"
    /\ Visited < Len(analyzersToRun)
    /\ \E outcome \in Outcomes :
          LET run == [loop |-> "main", name |-> analyzersToRun[Visited + 1],
                      outcome |-> outcome]
          IN  /\ runs' = Append(runs, run)
              /\ results' = results \o resultsOf(<<run>>, 1)
    /\ UNCHANGED <<pc, input, analyzers, analyzersToRun, ret>>
    /\ UNCHANGED parserVars
    /\ UNCHANGED analyzeVars

\* the end of the loop: the overall summary and the return of main
MainDone ==
    /\ pc = "run"
    /\ Visited = Len(analyzersToRun)
    /\ Exit(0, "Analysis completed successfully!")
    /\ UNCHANGED <<input, analyzers, analyzersToRun, runs, results>>
    /\ UNCHANGED parserVars
    /\ UNCHANGED analyzeVars

NextMain ==
    MainFlags \/ MainCreate \/ MainSelect \/ MainBacklog \/ MainRunNext \/ MainDone

SpecMain == InitMain /\ [][NextMain]_vars

\* the iterations in which Analyze was called
AnalyzeCalls == {k \in 1..Len(runs) : runs[k].outcome # "create failed"}

\* the run gets as far as choosing analyzers and calendar is among the
\* names it asks for
RequestsCalendar ==
    /\ input.mode = "analyze"
    /\ input.commonConfig
    /\ \/ input.analyzerFlag = "all"
       \/ \E k \in 1..Len(requestedAnalyzers(input.analyzerFlag)) :
             requestedAnalyzers(input.analyzerFlag)[k] = "calendar"

RulesLoad == LoadCategorizationConfig(input.configFile).err = "nil"

(***************************************************************************)
(* C18: if the categorization rule set cannot be loaded, no calendar       *)
(* analyzer is constructed or registered (no built-in rules stand in for   *)
(* it), and a run that requests the calendar analyzer ends with an error   *)
(* status without having called Analyze of any analyzer, Backlog analyzers *)
(* and analyzers named before calendar included.                           *)
(***************************************************************************)
C18_NoRulesNoCalendar ==
    ~RulesLoad =>
        /\ NewCalendarAnalyzer(input.configFile) = Nil
        /\ "calendar" \notin DOMAIN analyzers
        /\ RequestsCalendar =>
              /\ AnalyzeCalls = {}
              /\ results = <<>>
              /\ pc \in {"flags", "create", "select", "ret"}
              /\ pc = "ret" => ret.exit = 1 /\ ret.reason = "Unknown analyzer: calendar"

\* the flag names github before calendar, the rule file is missing: github
\* was selected, then the run ended on calendar with nothing analyzed
C18_Witness ==
    /\ pc = "ret"
    /\ input.kind = "main" /\ input.configFile = "missing"
    /\ input.analyzerFlag = "github, calendar"
    /\ analyzersToRun = <<"github">>
    /\ ret.exit = 1
    /\ runs = <<>>

(***************************************************************************)
(* Analyze from the filter on: the events read, in every arrangement of    *)
(* FilterEvents, filtered by the range and summarised.                     *)
(***************************************************************************)
NextRangeStats == FilterAndSort \/ Summarize

SpecRangeStats == InitFilter /\ [][NextRangeStats]_vars

\* the statistics of a result are those of no event at all
EmptyAggregates(r) ==
    /\ r.totalEvents = 0
    /\ r.Summary["Total events"] = 0
    /\ r.totalDuration = 0
    /\ r.Summary["Total duration"] = 0
    /\ r.titleStats = <<>>
    /\ DOMAIN r.groupedByTitle = {}
    /\ r.allDayStats = <<>>
    /\ DOMAIN r.categoryStats.Categories = {}
    /\ r.categoryStats.MeetingTime = 0
    /\ r.categoryStats.FocusTime = 0
    /\ r.categoryStats.LearningTime = 0
    /\ r.categoryStats.AdminTime = 0
    /\ DOMAIN r.workingHoursStats.HourlyDistribution = {}
    /\ DOMAIN r.workingHoursStats.DailyDistribution = {}
    /\ r.workingHoursStats.TotalWorkingHours = 0
    /\ r.workingHoursStats.PeakHours = <<>>

(***************************************************************************)
(* C19: when the filtered event list is empty, the statistics step of      *)
(* Analyze returns a result and no error, and every aggregate of the       *)
(* result is the empty or zero one: 0 events, 0 duration, no title stats,  *)
(* no all-day stats, no categories, the four time-bucket totals 0, no hour *)
(* and no weekday in the distributions, 0 working hours, no peak hours.    *)
(***************************************************************************)
C19_EmptyListEmptyAggregates ==
    [][(pc = "stats" /\ filteredEvents = <<>>) =>
          /\ pc' = "ret"
          /\ ret'.kind = "Analyze"
          /\ ret'.err = "nil"
          /\ EmptyAggregates(ret')]_vars

\* events were read, none starts in the range, and Analyze has returned
C19_Witness ==
    /\ pc = "ret"
    /\ Len(allEvents) = 2
    /\ filteredEvents = <<>>
    /\ ret.kind = "Analyze"
    /\ ret.err = "nil"
    /\ ret.totalEvents = 0

(***************************************************************************)
(* The lines read while an event block is open.                            *)
(***************************************************************************)
\* the prefix a line must have to assign the field
FieldPrefix ==
    [UID |-> "UID:", Summary |-> "SUMMARY:", Start |-> "DTSTART",
     IsAllDay |-> "DTSTART", End |-> "DTEND", Created |-> "CREATED:"]

\* the scanner delivers a line while an event block is open
ReadsInEvent == pc = "scan" /\ inEvent /\ Len(content') = Len(content) + 1

(***************************************************************************)
(* C20: while the parser is in an event block, a line other than           *)
(* END:VEVENT, a second BEGIN:VEVENT included, leaves the parser in the    *)
(* block, emits nothing and changes no field of the event in progress      *)
(* other than a field its property prefix names.                           *)
(***************************************************************************)
C20_InEventLineKeepsFields ==
    [][LET line == TrimSpace(content'[Len(content')])
       IN  (ReadsInEvent /\ line # "END:VEVENT") =>
              /\ inEvent'
              /\ events' = events
              /\ \A f \in DOMAIN FieldPrefix :
                    currentEvent'[f] # currentEvent[f] =>
                       HasPrefix(line, FieldPrefix[f])]_vars

(***************************************************************************)
(* parseICSFile on files of DTSTART and DTEND lines with and without a     *)
(* VALUE parameter.                                                        *)
(***************************************************************************)
ValueLines ==
    {"BEGIN:VEVENT", "END:VEVENT", "DTSTART;VALUE=DATE:20240103",
     "DTSTART;VALUE=DATE-TIME:20240102T090000Z", "DTSTART:20240102T090000Z",
     "DTEND;VALUE=DATE:20240104"}

InitParseValues ==
    /\ pc = "open"
    /\ input = [kind |-> "parse", lines |-> ValueLines]
    /\ ParserIdle
    /\ AnalyzeIdle
    /\ MainIdle
    /\ ret = NoRet

SpecParseValues == InitParseValues /\ [][NextParse]_vars

\* a DTSTART line whose parameters include VALUE=DATE
MarksDateOnly(line) ==
    /\ HasPrefix(line, "DTSTART")
    /\ Contains(line, ";VALUE=DATE:") \/ Contains(line, ";VALUE=DATE;")

(***************************************************************************)
(* C21: the all-day flag of the event in progress becomes set only on      *)
(* reading a DTSTART line whose parameter VALUE=DATE marks a date-only     *)
(* value; a DTSTART line with parameter VALUE=DATE-TIME, a DTEND line and  *)
(* every other line never set it.                                          *)
(***************************************************************************)
C21_AllDayOnlyByDateOnlyStart ==
    [][(~currentEvent.IsAllDay /\ currentEvent'.IsAllDay) =>
          /\ Len(content') = Len(content) + 1
          /\ MarksDateOnly(TrimSpace(content'[Len(content')]))]_vars

(***************************************************************************)
(* parseICSFile on files with lines it does not recognize, one of them     *)
(* longer than the buffer of the scanner.                                  *)
(***************************************************************************)
\* s repeated 2^k times
RECURSIVE Doubled(_, _)
Doubled(s, k) == IF k = 0 THEN s ELSE Doubled(s \o s, k - 1)

\* an unrecognized property with a value of 64 KiB
LongLine == "X-DATA:" \o Doubled("x", 16)

NoteLines == {"BEGIN:VEVENT", "END:VEVENT", "UID:a", "X-NOTE:n", LongLine}

InitParseNotes ==
    /\ pc = "open"
    /\ input = [kind |-> "parse", lines |-> NoteLines]
    /\ ParserIdle
    /\ AnalyzeIdle
    /\ MainIdle
    /\ ret = NoRet

NextParseNotes == NextParse \/ ScanTooLong

SpecParseNotes == InitParseNotes /\ [][NextParseNotes]_vars

\* s without its leading, without its trailing white space
RECURSIVE TrimLeft(_)
TrimLeft(s) ==
    IF s # "" /\ CharAt(s, 1) \in WhiteSpace THEN TrimLeft(SubSeq(s, 2, Len(s))) ELSE s

RECURSIVE TrimRight(_)
TrimRight(s) ==
    IF s # "" /\ CharAt(s, Len(s)) \in WhiteSpace
    THEN TrimRight(SubSeq(s, 1, Len(s) - 1)) ELSE s

RecognizedPrefixes == {"UID:", "SUMMARY:", "DTSTART", "DTEND", "CREATED:"}

\* the line is one the state machine has no transition for: outside a block
\* anything but BEGIN:VEVENT, in a block neither a delimiter nor a
\* recognized property
Unrecognized(open, text) ==
    LET line == TrimRight(TrimLeft(text))
    IN  IF ~open THEN line # "BEGIN:VEVENT"
        ELSE /\ line \notin {"BEGIN:VEVENT", "END:VEVENT"}
             /\ \A p \in RecognizedPrefixes : ~HasPrefix(line, p)

\* the scanner reads the line text in this step, delivering it or failing
\* on it
Reads(text) ==
    /\ pc = "scan"
    /\ \/ content' = Append(content, text)
       \/ pc' = "ret" /\ ret'.err = "token too long" /\ ret'.line = text

\* the lines that are not unrecognized where they stand, and the parser
\* state after them
RECURSIVE recognizedOf(_, _)
recognizedOf(lines, n) ==
    IF n = 0 THEN [st |-> ScanStart, kept |-> <<>>]
    ELSE LET r == recognizedOf(lines, n - 1)
         IN  [st   |-> ScanLine(r.st, lines[n]),
              kept |-> IF Unrecognized(r.st.inEvent, lines[n])
                       THEN r.kept ELSE Append(r.kept, lines[n])]

(***************************************************************************)
(* C22: an unrecognized line (outside a block any line other than          *)
(* BEGIN:VEVENT, in a block a line that is no delimiter and has no         *)
(* recognized property prefix) leaves inEvent, the event in progress and   *)
(* the emitted events as they are and does not end the parse with an       *)
(* error; the events returned for a file are those returned for the file   *)
(* without its unrecognized lines.                                         *)
(***************************************************************************)
C22_UnrecognizedLineIgnored ==
    [][/\ \A text \in input.lines :
             (Reads(text) /\ Unrecognized(inEvent, text)) =>
                /\ pc' = "scan"
                /\ inEvent' = inEvent
                /\ currentEvent' = currentEvent
                /\ events' = events
       /\ (pc' = "ret" /\ ret'.kind = "parse" /\ ret'.err = "nil") =>
             LET kept == recognizedOf(content, Len(content)).kept
             IN  ret'.events = scanLines(kept, Len(kept)).events]_vars

(***************************************************************************)
(* The durations of the categories against those of the titles.            *)
(***************************************************************************)
\* the sum of end - start over the first n events, as a Duration
RECURSIVE rawDuration(_, _)
rawDuration(evs, n) ==
    IF n = 0 THEN 0
    ELSE DurAdd(rawDuration(evs, n - 1), Sub(evs[n].End, evs[n].Start))

\* the event is timed for analyzeCategoryStats and does not end after it
\* starts
EndsNotAfterStart(event) == ~event.IsAllDay /\ ~Before(event.Start, event.End)

\* the category whose Events hold the event
CategoriesHolding(stats, event) ==
    {c \in DOMAIN stats.Categories :
        \E k \in 1..Len(stats.Categories[c].Events) :
            stats.Categories[c].Events[k] = event}

(***************************************************************************)
(* C23: the Duration of every category is the sum of the raw end - start   *)
(* of its events, with no test of the sign; an event not marked all-day    *)
(* whose end is not after its start is counted in a category, adds a zero  *)
(* or negative amount there, and adds nothing to the timed duration of its *)
(* title.                                                                  *)
(***************************************************************************)
C23_CategoryDurationRaw ==
    Analyzed =>
        /\ \A c \in DOMAIN ret.categoryStats.Categories :
              LET info == ret.categoryStats.Categories[c]
              IN  /\ info.Duration = rawDuration(info.Events, Len(info.Events))
                  /\ info.Count = Len(info.Events)
        /\ \A i \in 1..Len(filteredEvents) :
              LET event == filteredEvents[i]
              IN  EndsNotAfterStart(event) =>
                     /\ CategoriesHolding(ret.categoryStats, event) # {}
                     /\ Sub(event.End, event.Start) <= 0
                     /\ ~Timed(event)
                     /\ LET alone == <<event>>
                        IN  /\ titleDuration(alone, 1) = 0
                            /\ calculateDuration(alone) = 0

\* a one-hour meeting and a meeting of the same title that ends half an
\* hour before it starts: the category has 30 minutes, the title one hour
C23_Witness ==
    /\ Analyzed
    /\ Len(filteredEvents) = 2
    /\ \E c \in DOMAIN ret.categoryStats.Categories :
          /\ ret.categoryStats.Categories[c].Count = 2
          /\ ret.categoryStats.Categories[c].Duration = 1800
    /\ Len(ret.titleStats) = 1
    /\ ret.titleStats[1].Duration = 3600

(***************************************************************************)
(* The buckets of analyzeWorkingHours.                                     *)
(***************************************************************************)
\* the sum, as a Duration, of end - start over the events at a set of
\* indices
RECURSIVE DurationOver(_, _)
DurationOver(evs, S) ==
    IF S = {} THEN 0
    ELSE LET i == CHOOSE i \in S : TRUE
         IN  DurAdd(DurationOver(evs, S \ {i}), Sub(evs[i].End, evs[i].Start))

\* the sum, as a Duration, of the values of a map at a set of keys
RECURSIVE BucketSum(_, _)
BucketSum(m, K) ==
    IF K = {} THEN 0
    ELSE LET k == CHOOSE k \in K : TRUE
         IN  DurAdd(BucketSum(m, K \ {k}), m[k])

WeekdayNames ==
    {"Sunday", "Monday", "Tuesday", "Wednesday", "Thursday", "Friday", "Saturday"}

\* the events analyzeWorkingHours does not skip
Unmarked(evs) == {i \in 1..Len(evs) : ~evs[i].IsAllDay}

(***************************************************************************)
(* C24: analyzeWorkingHours adds the whole end - start of every event not  *)
(* marked all-day to the bucket of the hour of its start, to the bucket of *)
(* the weekday of its start and to the total, and to nothing else: each    *)
(* bucket holds the sum over the events that start in it, the hour keys    *)
(* lie in 0..23, the day keys are weekday names, and the sum of the hour   *)
(* buckets, the sum of the day buckets and TotalWorkingHours are equal.    *)
(***************************************************************************)
C24_WorkingHoursBuckets ==
    Analyzed =>
        LET w     == ret.workingHoursStats
            timed == Unmarked(filteredEvents)
            inHour(h) == {i \in timed : Hour(filteredEvents[i].Start) = h}
            onDay(d)  == {i \in timed : Weekday(filteredEvents[i].Start) = d}
        IN  /\ DOMAIN w.HourlyDistribution = {h \in 0..23 : inHour(h) # {}}
            /\ DOMAIN w.DailyDistribution = {d \in WeekdayNames : onDay(d) # {}}
            /\ \A h \in DOMAIN w.HourlyDistribution :
                  w.HourlyDistribution[h] = DurationOver(filteredEvents, inHour(h))
            /\ \A d \in DOMAIN w.DailyDistribution :
                  w.DailyDistribution[d] = DurationOver(filteredEvents, onDay(d))
            /\ w.TotalWorkingHours = DurationOver(filteredEvents, timed)
            /\ BucketSum(w.HourlyDistribution, DOMAIN w.HourlyDistribution)
                  = w.TotalWorkingHours
            /\ BucketSum(w.DailyDistribution, DOMAIN w.DailyDistribution)
                  = w.TotalWorkingHours

\* four events in three hour buckets and on two weekdays
C24_Witness ==
    /\ Analyzed
    /\ Len(filteredEvents) = 4
    /\ Cardinality(DOMAIN ret.workingHoursStats.HourlyDistribution) = 3
    /\ DOMAIN ret.workingHoursStats.DailyDistribution = {"Tuesday", "Wednesday"}
    /\ ret.workingHoursStats.TotalWorkingHours > 0

(***************************************************************************)
(* The time buckets of analyzeCategoryStats, under the rule set of the     *)
(* repository and under one with a fifth general category.                 *)
(***************************************************************************)
MaxBucketEvents == 2

\* the rule set with a general category break and an event rule time off
BreakConfig ==
    [YamlConfig EXCEPT
        !.EventCategories =
            ("time off" :> [Keywords |-> <<"vacation">>, Category |-> "other"]) @@ @,
        !.Categories =
            ("break" :> [Name |-> "Break time", Keywords |-> <<"break">>]) @@ @]

BucketConfigs == {YamlConfig, BreakConfig}

\* one event for each bucket, one that an event rule puts under meeting and
\* the general categories under focus, one for the category break, one that
\* no general category matches, one marked all-day
BucketEvents ==
    {Ev("Team Meeting", Jan(2, 9, 0), Jan(2, 10, 0), FALSE),
     Ev("Focus block", Jan(2, 10, 0), Jan(2, 12, 0), FALSE),
     Ev("Focus meeting", Jan(2, 12, 0), Jan(2, 12, 45), FALSE),
     Ev("Training", Jan(2, 13, 0), Jan(2, 13, 30), FALSE),
     Ev("Admin", Jan(2, 14, 0), Jan(2, 14, 15), FALSE),
     Ev("Coffee break", Jan(2, 15, 0), Jan(2, 15, 20), FALSE),
     Ev("Vacation", Jan(2, 16, 0), Jan(2, 17, 0), FALSE),
     Ev("Offsite meeting", Jan(2, 0, 0), Jan(3, 0, 0), TRUE)}

InitBuckets ==
    /\ pc = "stats"
    /\ \E config \in BucketConfigs :
          input = [kind |-> "analyze", dirExists |-> TRUE, dir |-> <<>>,
                   config |-> config,
                   StartDate |-> Jan(1, 0, 0), EndDate |-> Jan(3, 0, 0)]
    /\ ParserIdle
    /\ idx = 0
    /\ allEvents = <<>>
    /\ writer = <<>>
    /\ filteredEvents \in SeqsUpTo(BucketEvents, MaxBucketEvents)
    /\ FilteredAndSorted(filteredEvents, input.StartDate, input.EndDate)
    /\ MainIdle
    /\ ret = NoRet

NextBuckets == Summarize

SpecBuckets == InitBuckets /\ [][NextBuckets]_vars

Buckets == {"meeting", "focus", "learning", "admin"}

\* the result of GetCategoryTime for an event, as analyzeCategoryStats
\* calls it
BucketOf(config, event) ==
    GetCategoryTime(config, ToLower(event.Summary), MapOrder(config.Categories))

\* the rule set without its event rules
WithoutEventRules(config) == [config EXCEPT !.EventCategories = << >>]

\* the four totals, by bucket
BucketTotals(stats) ==
    [b \in Buckets |->
        CASE b = "meeting" -> stats.MeetingTime
          [] b = "focus" -> stats.FocusTime
          [] b = "learning" -> stats.LearningTime
          [] b = "admin" -> stats.AdminTime]

\* GetCategoryTime does not depend on the event rules, and every total is
\* the sum over the unmarked events of its bucket
TotalsByBucket ==
    LET timed == Unmarked(filteredEvents)
    IN  /\ \A i \in timed :
              BucketOf(input.config, filteredEvents[i])
                 = BucketOf(WithoutEventRules(input.config), filteredEvents[i])
        /\ \A b \in Buckets :
              BucketTotals(ret.categoryStats)[b] =
                 DurationOver(filteredEvents,
                              {i \in timed : BucketOf(input.config, filteredEvents[i]) = b})

(***************************************************************************)
(* C25 as stated: GetCategoryTime consults only the general categories,    *)
(* its result is one of meeting, focus, learning, admin, other, and the    *)
(* duration of every timed event is added to exactly one of the four       *)
(* totals unless its bucket is other.                                      *)
(***************************************************************************)
C25_ResultAlwaysABucket ==
    Analyzed =>
        /\ TotalsByBucket
        /\ \A i \in Unmarked(filteredEvents) :
              BucketOf(input.config, filteredEvents[i]) \in Buckets \cup {"other"}
        /\ BucketSum(BucketTotals(ret.categoryStats), Buckets) =
              DurationOver(filteredEvents,
                           {i \in Unmarked(filteredEvents) :
                               BucketOf(input.config, filteredEvents[i]) # "other"})

(***************************************************************************)
(* C25: GetCategoryTime consults only the general categories and its       *)
(* result is the name of a general category of the rule set, or other; the *)
(* duration of every timed event is added to the one total its result      *)
(* names when the result is meeting, focus, learning or admin, and to no   *)
(* total otherwise.                                                        *)
(***************************************************************************)
C25_ResultIsCategoryName ==
    Analyzed =>
        /\ TotalsByBucket
        /\ \A i \in Unmarked(filteredEvents) :
              BucketOf(input.config, filteredEvents[i])
                 \in DOMAIN input.config.Categories \cup {"other"}
        /\ BucketSum(BucketTotals(ret.categoryStats), Buckets) =
              DurationOver(filteredEvents,
                           {i \in Unmarked(filteredEvents) :
                               BucketOf(input.config, filteredEvents[i]) \in Buckets})

\* a meeting and a coffee break under the rule set with the category break:
\* the meeting hour is in MeetingTime, the break in no total
C25_Witness ==
    /\ Analyzed
    /\ input.config = BreakConfig
    /\ Len(filteredEvents) = 2
    /\ BucketOf(input.config, filteredEvents[1]) = "meeting"
    /\ BucketOf(input.config, filteredEvents[2]) = "break"
    /\ ret.categoryStats.MeetingTime = 3600
    /\ BucketSum(BucketTotals(ret.categoryStats), Buckets) = 3600

(***************************************************************************)
(* The paths the walk hands to parseICSFile.                               *)
(***************************************************************************)
\* the paths the callback has been called on
VisitedPaths == {input.dir[k] : k \in 1..idx}

\* the names the writer was told were read as calendar files, and those it
\* was told failed
NamesRead == {writer[k].path : k \in {j \in 1..Len(writer) : writer[j].text = "Reading calendar file"}}

NamesFailed == {writer[k].path : k \in {j \in 1..Len(writer) : writer[j].text = "Error parsing ICS file"}}

(***************************************************************************)
(* C26: the walk hands to the parser exactly the regular files it visits   *)
(* without a walk error whose name ends in .ics, letter case ignored;      *)
(* directories, a directory named like a calendar file included, and files *)
(* of other names are neither read as calendar files nor reported as       *)
(* failed, and the walk goes on after them.                                *)
(***************************************************************************)
C26_OnlyRegularCalendarFiles ==
    (input.kind = "analyze" /\ pc \in {"walk", "filter"}) =>
        /\ NamesRead = {p.name : p \in {q \in VisitedPaths :
                                          /\ ~q.walkErr /\ ~q.isDir
                                          /\ IsCalendarName(q.name)}}
        /\ \A p \in VisitedPaths :
              (p.isDir \/ ~IsCalendarName(p.name)) =>
                  p.name \notin NamesRead \cup NamesFailed

(***************************************************************************)
(* The groups of groupEventsByTitle.                                       *)
(***************************************************************************)
\* the events of a list whose trimmed title is title, in the order of the
\* list
WithTitle(evs, title) == SelectSeq(evs, LAMBDA e : TrimSpace(e.Summary) = title)

Untitled(evs) == {i \in 1..Len(evs) : TrimSpace(evs[i].Summary) = ""}

\* the number of events in the Events lists of the categories
RECURSIVE CountOver(_, _)
CountOver(categories, K) ==
    IF K = {} THEN 0
    ELSE LET k == CHOOSE k \in K : TRUE
         IN  categories[k].Count + CountOver(categories, K \ {k})

(***************************************************************************)
(* C27: the groups of groupEventsByTitle are keyed by the trimmed titles:  *)
(* the group of a key holds exactly the events whose trimmed title is the  *)
(* key, so titles that differ only in surrounding white space share a      *)
(* group and every event with a non-empty trimmed title is in one group;   *)
(* an event whose trimmed title is empty is in no group and is still       *)
(* counted in Total events, Total duration, the category statistics and    *)
(* the working-hours statistics.                                           *)
(***************************************************************************)
C27_GroupsByTrimmedTitle ==
    Analyzed =>
        LET grouped == ret.groupedByTitle
            evs     == filteredEvents
        IN  /\ DOMAIN grouped = {TrimSpace(evs[i].Summary) : i \in 1..Len(evs)} \ {""}
            /\ \A title \in DOMAIN grouped : grouped[title] = WithTitle(evs, title)
            /\ \A i \in 1..Len(evs) :
                  {title \in DOMAIN grouped :
                      \E k \in 1..Len(grouped[title]) : grouped[title][k] = evs[i]}
                     = {TrimSpace(evs[i].Summary)} \ {""}
            /\ ret.totalEvents = Len(evs)
            /\ ret.Summary["Total events"] = Len(evs)
            /\ ret.totalDuration =
                  DurationOver(evs, {i \in 1..Len(evs) : Timed(evs[i])})
            /\ CountOver(ret.categoryStats.Categories,
                         DOMAIN ret.categoryStats.Categories)
                  = Cardinality(Unmarked(evs))
            /\ \A i \in Untitled(evs) \cap Unmarked(evs) :
                  CategoriesHolding(ret.categoryStats, evs[i]) # {}
            /\ ret.workingHoursStats.TotalWorkingHours =
                  DurationOver(evs, Unmarked(evs))

\* two meetings whose titles differ in a leading blank and an event with a
\* title of blanks: one group of two, three events, its 45 minutes in the
\* totals
C27_Witness ==
    /\ Analyzed
    /\ Len(filteredEvents) = 3
    /\ filteredEvents[3].Summary = "  "
    /\ DOMAIN ret.groupedByTitle = {"Team Meeting"}
    /\ Len(ret.groupedByTitle["Team Meeting"]) = 2
    /\ ret.groupedByTitle["Team Meeting"][1].Summary # ret.groupedByTitle["Team Meeting"][2].Summary
    /\ ret.totalEvents = 3
    /\ ret.totalDuration = 3600 + 2700
    /\ ret.workingHoursStats.TotalWorkingHours = 3600 + 2700

(***************************************************************************)
(* The lines an emitted Event derives from.                                *)
(***************************************************************************)
\* the positions of the END:VEVENT lines that emit an Event: those whose
\* nearest delimiter before them is a BEGIN:VEVENT
EmittingEnds(ls) ==
    {e \in 1..Len(ls) :
        /\ IsEnd(ls[e])
        /\ \E b \in 1..(e - 1) :
              /\ IsBegin(ls[b])
              /\ \A i \in (b + 1)..(e - 1) : ~IsDelim(ls[i])}

\* the lines, trimmed, between the END:VEVENT at e and the BEGIN:VEVENT
\* that most recently precedes it
SpanBefore(ls, e) ==
    LET b == CHOOSE b \in 1..(e - 1) :
                IsBegin(ls[b]) /\ \A i \in (b + 1)..(e - 1) : ~IsBegin(ls[i])
    IN  [i \in 1..(e - b - 1) |-> TrimSpace(ls[b + i])]

\* the Event the lines of a span describe, every field they do not set
\* empty, absent or false
SpanEvent(span) ==
    [UID      |-> LastText(span, "UID:"),
     Summary  |-> LastText(span, "SUMMARY:"),
     Start    |-> LastDecoded(span, "DTSTART"),
     End      |-> LastDecoded(span, "DTEND"),
     Created  |-> LastDecoded(span, "CREATED:"),
     IsAllDay |-> \E i \in WithPrefix(span, "DTSTART") : Contains(span[i], "VALUE=DATE")]

\* the emitting END:VEVENT lines in file order
RECURSIVE InOrder(_)
InOrder(S) ==
    IF S = {} THEN <<>>
    ELSE LET least == CHOOSE x \in S : \A y \in S : x <= y
         IN  <<least>> \o InOrder(S \ {least})

\* the local events holds, for each emitting END:VEVENT read so far, the
\* Event of its span
EmittedFromSpans ==
    LET ends == InOrder(EmittingEnds(content))
    IN  /\ Len(events) = Len(ends)
        /\ \A k \in 1..Len(ends) : events[k] = SpanEvent(SpanBefore(content, ends[k]))

(***************************************************************************)
(* C28: every emitted Event has the fields set by the lines between its    *)
(* END:VEVENT and the BEGIN:VEVENT that most recently precedes it, a field *)
(* those lines do not set being empty, absent or false whatever an earlier *)
(* block, emitted or abandoned, set; and a line read after an Event is     *)
(* emitted does not change it.                                             *)
(***************************************************************************)
C28_NoFieldLeaks ==
    /\ [](input.kind = "parse" =>
             /\ EmittedFromSpans
             /\ pc = "ret" /\ ret.err # "open" => ret.events = events)
    /\ [][/\ Len(events') >= Len(events)
          /\ SubSeq(events', 1, Len(events)) = events]_vars

\* a block that sets a UID, then a block without lines: the second Event
\* has no field of the first
C28_Witness ==
    /\ pc = "ret"
    /\ input.kind = "parse"
    /\ content = <<"BEGIN:VEVENT", "UID:a", "END:VEVENT", "BEGIN:VEVENT", "END:VEVENT">>
    /\ Len(ret.events) = 2
    /\ ret.events[1].UID = "a"
    /\ ret.events[2] = EmptyEvent

(***************************************************************************)
(* The categories of analyzeCategoryStats as a partition.                  *)
(***************************************************************************)
\* the display names categorizeEvent returns
DisplayNames ==
    {"1on1 Meetings", "Daily Standups", "Regular Meetings", "General Meetings",
     "Focus Work", "Technical Consultation", "Learning & Training", "Time Off",
     "Admin Work", "Other"}

\* the category analyzeCategoryStats files an event under
CategoryOf(config, event) ==
    categorizeEvent(config, ToLower(event.Summary),
                    MapOrder(config.EventCategories), MapOrder(config.Categories))

(***************************************************************************)
(* C29: after analyzeCategoryStats the categories partition the filtered   *)
(* events that are not marked all-day: the Events of a category are        *)
(* exactly those events that categorizeEvent files under it, in list       *)
(* order, no category is empty, Count is the length of Events, the Counts  *)
(* add up to the number of such events, and every key is one of the        *)
(* display names of categorizeEvent, Other for a classification without a  *)
(* display name.                                                           *)
(***************************************************************************)
C29_CategoriesPartition ==
    Analyzed =>
        LET categories == ret.categoryStats.Categories
            timed      == SelectSeq(filteredEvents, LAMBDA e : ~e.IsAllDay)
        IN  /\ DOMAIN categories \subseteq DisplayNames
            /\ DOMAIN categories =
                  {CategoryOf(input.config, timed[i]) : i \in 1..Len(timed)}
            /\ \A c \in DOMAIN categories :
                  /\ categories[c].Events =
                        SelectSeq(timed, LAMBDA e : CategoryOf(input.config, e) = c)
                  /\ categories[c].Count = Len(categories[c].Events)
                  /\ categories[c].Count >= 1
            /\ CountOver(categories, DOMAIN categories) = Len(timed)

\* an event of the general category break, which has no display name, and
\* an event marked all-day: the one category Other, holding the break
C29_Witness ==
    /\ Analyzed
    /\ input.config = BreakConfig
    /\ Len(filteredEvents) = 2
    /\ \E i \in 1..2 : filteredEvents[i].IsAllDay
    /\ DOMAIN ret.categoryStats.Categories = {"Other"}
    /\ ret.categoryStats.Categories["Other"].Count = 1
    /\ ret.categoryStats.Categories["Other"].Events[1].Summary = "Coffee break"

(***************************************************************************)
(* Total duration against the per-title durations.                         *)
(***************************************************************************)
\* the sums of the Durations and of the Counts of the first n title stats
RECURSIVE TitleDurations(_, _)
TitleDurations(stats, n) ==
    IF n = 0 THEN 0 ELSE TitleDurations(stats, n - 1) + stats[n].Duration

RECURSIVE TitleCounts(_, _)
TitleCounts(stats, n) ==
    IF n = 0 THEN 0 ELSE TitleCounts(stats, n - 1) + stats[n].Count

(***************************************************************************)
(* C30: Total duration is the sum of the Durations of the per-title stats  *)
(* plus the positive timed durations of the events whose trimmed title is  *)
(* empty; so the per-title Durations add up to at most Total duration, to  *)
(* exactly Total duration when every event has a title, and the per-title  *)
(* Counts add up to the number of events with a title.                     *)
(***************************************************************************)
C30_TotalIsTitlesPlusUntitled ==
    Analyzed =>
        LET evs      == filteredEvents
            titled   == TitleDurations(ret.titleStats, Len(ret.titleStats))
            untitled == SumSpans(evs, {i \in Untitled(evs) : Timed(evs[i])})
        IN  /\ ret.totalDuration = titled + untitled
            /\ ret.Summary["Total duration"] = ret.totalDuration
            /\ titled <= ret.totalDuration
            /\ Untitled(evs) = {} => titled = ret.totalDuration
            /\ TitleCounts(ret.titleStats, Len(ret.titleStats))
                  = Len(evs) - Cardinality(Untitled(evs))

\* an hour under a title, half an hour without a title and 45 minutes under
\* a title of blanks: one title stat of an hour, a total of 2h15m
C30_Witness ==
    /\ Analyzed
    /\ Len(filteredEvents) = 3
    /\ Cardinality(Untitled(filteredEvents)) = 2
    /\ Len(ret.titleStats) = 1
    /\ ret.titleStats[1].Duration = 3600
    /\ ret.titleStats[1].Count = 1
    /\ ret.totalDuration = 3600 + 1800 + 2700

====
